---------------------------- MODULE Spec2Model ----------------------------
(***************************************************************************)
(* The Redpath query planner of ecclesia (query_planner.cc): compilation   *)
(* of a subquery's redpath into a SubqueryHandle, and QueryPlanner::Run,   *)
(* the recursive walk of a Redfish resource tree that deduplicates the     *)
(* next node of all handles, dispatches one lookup per node name,          *)
(* qualifies every handle against every resource found and normalizes the  *)
(* resources on which a handle ends.                                       *)
(*                                                                         *)
(* A string is a sequence of one-character strings, indexed from 1; the    *)
(* code's indexes (size_t, from 0) are kept as they are and converted at   *)
(* the point of access.                                                    *)
(***************************************************************************)
EXTENDS Integers, Sequences, FiniteSets, TLC

(***************************************************************************)
(* Bounds of the model.                                                    *)
(***************************************************************************)
\* size_t arithmetic wraps modulo SizeMod (the code's 2^64, cut to a modulus
\* TLC's integers hold; every string of the model is far shorter).
SizeMod == 65536
\* Longest redpath of the path-compiler specification.
MaxLen == 6
\* Most subqueries in one query.
MaxSubqueries == 2
\* Depth below which the resource tree has no children.
MaxDepth == 3
\* Most members of a collection.
MaxMembers == 2

(***************************************************************************)
(* Strings.                                                                *)
(***************************************************************************)
Chars == {"/", "A", "B", "[", "]", "*", "x", "?"}

\* ASCII codes: std::map<std::string, ...> iterates its keys in this order.
CharCode(c) ==
  CASE c = "*" -> 42
    [] c = "/" -> 47
    [] c = "?" -> 63
    [] c = "A" -> 65
    [] c = "B" -> 66
    [] c = "[" -> 91
    [] c = "]" -> 93
    [] c = "x" -> 120

\* std::string::npos, as find_first_of returns it.
npos == SizeMod - 1

\* string_view::find_first_of(c): the 0-based index of the first c, or npos.
find_first_of(s, c) ==
  IF \E i \in 1..Len(s) : s[i] = c
    THEN (CHOOSE i \in 1..Len(s) : s[i] = c /\ \A j \in 1..(i-1) : s[j] # c) - 1
    ELSE npos

\* string_view::substr(pos, n) for pos <= size(): the characters from the
\* 0-based index pos, at most n of them.
substr(s, pos, n) ==
  LET last == IF pos + n > Len(s) THEN Len(s) ELSE pos + n
  IN  SubSeq(s, pos + 1, last)

\* std::string operator<.
RECURSIVE StrLess(_, _)
StrLess(a, b) ==
  IF b = <<>> THEN FALSE
  ELSE IF a = <<>> THEN TRUE
  ELSE IF CharCode(Head(a)) # CharCode(Head(b))
         THEN CharCode(Head(a)) < CharCode(Head(b))
         ELSE StrLess(Tail(a), Tail(b))

\* absl::StrSplit(s, '/', absl::SkipEmpty()): the pieces between the
\* separators, the empty ones left out.  cur is the piece being read.
RECURSIVE SplitFrom(_, _, _)
SplitFrom(s, i, cur) ==
  IF i > Len(s)
    THEN IF cur = <<>> THEN <<>> ELSE <<cur>>
    ELSE IF s[i] = "/"
           THEN (IF cur = <<>> THEN <<>> ELSE <<cur>>) \o SplitFrom(s, i + 1, <<>>)
           ELSE SplitFrom(s, i + 1, Append(cur, s[i]))

StrSplitSkipEmpty(s) == SplitFrom(s, 1, <<>>)

(***************************************************************************)
(* The path compiler.                                                      *)
(***************************************************************************)
kPredicateSelectAll == <<"*">>

\* The only predicate handler: accepts every resource.
ApplySelectAllFilter(variant) == TRUE

\* GetNodeAndPredicate: an error when either bracket is missing, else the
\* node name and the predicate expression.  The length handed to substr is
\* computed in size_t and wraps when ']' comes before '['.
GetNodeAndPredicate(step) ==
  LET predicate_start == find_first_of(step, "[")
      predicate_end   == find_first_of(step, "]")
  IN  IF predicate_start = npos \/ predicate_end = npos
        THEN [ok |-> FALSE, node |-> <<>>, predicate |-> <<>>]
        ELSE [ok        |-> TRUE,
              node      |-> substr(step, 0, predicate_start),
              predicate |-> substr(step, predicate_start + 1,
                              (predicate_end - predicate_start - 1) % SizeMod)]

\* The constructor's loop over the step expressions, from the i-th on: it
\* returns at the first step that does not compile, leaving the handle
\* invalid, and marks the handle valid after the last.
RECURSIVE CompileSteps(_, _, _)
CompileSteps(exprs, i, steps) ==
  IF i > Len(exprs)
    THEN [valid |-> TRUE, steps |-> steps]
    ELSE LET np == GetNodeAndPredicate(exprs[i])
         IN  IF ~np.ok
               THEN [valid |-> FALSE, steps |-> steps]
               ELSE IF np.predicate = kPredicateSelectAll
                      THEN CompileSteps(exprs, i + 1,
                             Append(steps, [name |-> np.node, pred |-> "select_all"]))
                      ELSE [valid |-> FALSE, steps |-> steps]

\* SubqueryHandle::SubqueryHandle.  iter is the 0-based position of iter_
\* in steps_in_redpath_; it is set (to begin()) only on a valid handle.
\* ix names the handle in the trace: the place of its subquery in the query.
SubqueryHandle(subquery) ==
  LET c == CompileSteps(StrSplitSkipEmpty(subquery.redpath), 1, <<>>)
  IN  [subquery |-> subquery, steps |-> c.steps, iter |-> 0, valid |-> c.valid,
       ix |-> 0]


(***************************************************************************)
(* The resource tree (RedfishVariant / RedfishObject / RedfishIterable).   *)
(*                                                                         *)
(* A variant is [path, kind]: path is the way from the root, one entry     *)
(* [n, i] per lookup (n the property name, i = 0 for the property itself   *)
(* and i >= 1 for the i-th member of the collection it holds).  The tree   *)
(* is given by what every property name holds (tree.kind), the number of   *)
(* members of every collection (tree.nmem) and one member index (tree.odd, *)
(* 0 for none) whose resources differ from their siblings (tree.attr).     *)
(***************************************************************************)
TreeNames == {<<"A">>, <<"B">>}

\* "object": AsObject only.  "collection": AsObject and AsIterable.
\* "array": AsIterable only.  "none": neither (absent, failed fetch, scalar).
Kinds == {"none", "object", "collection", "array"}

\* "scalar": the member is no object.  "leaf": the member has no children.
\* "noP1": the member lacks property P1.
Attrs == {"scalar", "leaf", "noP1"}

Root == [path |-> <<>>, kind |-> "object"]

\* RedfishVariant::AsObject() != nullptr
AsObject(v) == v.kind \in {"object", "collection"}

\* RedfishVariant::AsIterable() != nullptr
AsIterable(v) == v.kind \in {"collection", "array"}

IsOdd(tree, v) ==
  /\ v.path # <<>>
  /\ tree.odd >= 1
  /\ v.path[Len(v.path)].i = tree.odd

\* RedfishVariant::operator[](name): the property of an object, and an
\* empty variant for everything that is not there.
Sub(tree, v, name) ==
  LET p == Append(v.path, [n |-> name, i |-> 0])
  IN  IF /\ v.kind = "object"
         /\ name \in TreeNames
         /\ Len(v.path) < MaxDepth
         /\ ~(IsOdd(tree, v) /\ tree.attr = "leaf")
        THEN [path |-> p, kind |-> tree.kind[name]]
        ELSE [path |-> p, kind |-> "none"]

\* The members of an iterable, the last one first.
Members_Reversed(tree, c) ==
  [k \in 1..tree.nmem |->
     [path |-> [c.path EXCEPT ![Len(c.path)].i = tree.nmem + 1 - k],
      kind |-> IF tree.odd = tree.nmem + 1 - k /\ tree.attr = "scalar"
                 THEN "none" ELSE "object"]]

\* The members of an iterable, in the iterable's order.
Members(tree, c) ==
  [k \in 1..tree.nmem |->
     [path |-> [c.path EXCEPT ![Len(c.path)].i = k],
      kind |-> IF tree.odd = k /\ tree.attr = "scalar" THEN "none" ELSE "object"]]

\* The properties a resource has.
PropertiesOf(tree, v) ==
  IF ~AsObject(v) THEN {}
  ELSE IF IsOdd(tree, v) /\ tree.attr = "noP1" THEN {"P2"}
  ELSE {"P1", "P2"}

\* Normalizer::Normalize(var, subquery): the requested properties the
\* resource has, and an error status when it has none of them.
Normalize(tree, var, subquery) ==
  LET found == SelectSeq(subquery.properties,
                         LAMBDA p : p \in PropertiesOf(tree, var))
  IN  [ok |-> found # <<>>, data |-> [view |-> var.path, props |-> found]]

(***************************************************************************)
(* The query result (DelliciusQueryResult).                                *)
(***************************************************************************)
EmptyResult ==
  [query_ids |-> <<>>, start_timestamp |-> -1, end_timestamp |-> -1,
   subquery_output_by_id |-> <<>>]

\* The record put in the place of the records the id has.
AddDataSet_Overwrites(result, id, data) ==
  LET out == result.subquery_output_by_id
  IN  [result EXCEPT !.subquery_output_by_id =
         [k \in (DOMAIN out) \cup {id} |-> IF k = id THEN <<data>> ELSE out[k]]]

\* (*subquery_output)[id].mutable_data_set()->Add(data): the map entry is
\* made by the first record of the id.
AddDataSet(result, id, data) ==
  LET out == result.subquery_output_by_id
      old == IF id \in DOMAIN out THEN out[id] ELSE <<>>
  IN  [result EXCEPT !.subquery_output_by_id =
         [k \in (DOMAIN out) \cup {id} |->
            IF k = id THEN Append(old, data) ELSE out[k]]]

(***************************************************************************)
(* The walk.                                                               *)
(*                                                                         *)
(* st = [result, trace, crashed] is threaded through the calls: the result *)
(* being filled, the calls made so far, and whether the process has died.  *)
(*                                                                         *)
(* Reading through the iter_ of a handle that has no step under it is      *)
(* undefined behaviour.  ub = [crash, name, accept] is what such a read    *)
(* does in this execution: it kills the process (crash), or it yields the  *)
(* node name ub.name and a predicate that answers ub.accept.               *)
(***************************************************************************)
Ev(op, view, name, hs, ret, d) ==
  [op |-> op, view |-> view, name |-> name, hs |-> hs, ret |-> ret, d |-> d]

\* A handle as the trace shows it: the index of its subquery in the query
\* and its cursor.
Shown(h) == <<h.ix, h.iter>>
ShownAll(handles) == [k \in 1..Len(handles) |-> Shown(handles[k])]

Log(st, e) == [st EXCEPT !.trace = Append(@, e)]

\* Whether iter_ points at a step of the handle.
Dereferenceable(h) == h.iter < Len(h.steps)

\* What a read of iter_->first yields where iter_ has no step under it:
\* ub.name at end(), and a name no resource has further on.
GarbageName(h, ub) == IF h.iter = Len(h.steps) THEN ub.name ELSE <<"?">>

\* NextNodeInRedpath without the test of is_redpath_valid_: whatever the
\* cursor shows is returned.
NextNodeInRedpath_Unchecked(h, ub) ==
  IF Dereferenceable(h)
    THEN [has |-> TRUE, name |-> h.steps[h.iter + 1].name, undefined |-> FALSE]
    ELSE [has |-> TRUE, name |-> GarbageName(h, ub), undefined |-> TRUE]

\* SubqueryHandle::NextNodeInRedpath
NextNodeInRedpath(h, ub) ==
  IF h.valid
    THEN IF Dereferenceable(h)
           THEN [has |-> TRUE, name |-> h.steps[h.iter + 1].name, undefined |-> FALSE]
           ELSE [has |-> TRUE, name |-> GarbageName(h, ub), undefined |-> TRUE]
    ELSE [has |-> FALSE, name |-> <<>>, undefined |-> FALSE]

\* A FilterNodeSet that reports kContinue without ++iter_.
FilterNodeSet_KeepsCursor(h, variant, ub) ==
  LET cur == IF Dereferenceable(h) THEN h.steps[h.iter + 1]
             ELSE [name |-> GarbageName(h, ub), pred |-> "undefined"]
      is_filter_success ==
        IF cur.pred = "select_all" THEN ApplySelectAllFilter(variant) ELSE ub.accept
  IN  IF ~is_filter_success
        THEN [ret |-> "kEndByPredicate", h |-> h, undefined |-> ~Dereferenceable(h)]
        ELSE IF h.steps # <<>> /\ cur.name = h.steps[Len(h.steps)].name
               THEN [ret |-> "kEndOfRedpath", h |-> h,
                     undefined |-> ~Dereferenceable(h)]
               ELSE [ret |-> "kContinue", h |-> h,
                     undefined |-> ~Dereferenceable(h)]

\* SubqueryHandle::FilterNodeSet: the predicate of the current step, then
\* the end-of-redpath test, which compares the current step's node name
\* with the last step's, then ++iter_.
FilterNodeSet(h, variant, ub) ==
  LET cur == IF Dereferenceable(h) THEN h.steps[h.iter + 1]
             ELSE [name |-> GarbageName(h, ub), pred |-> "undefined"]
      is_filter_success ==
        IF cur.pred = "select_all" THEN ApplySelectAllFilter(variant) ELSE ub.accept
  IN  IF ~is_filter_success
        THEN [ret |-> "kEndByPredicate", h |-> h, undefined |-> ~Dereferenceable(h)]
        ELSE IF h.steps # <<>> /\ cur.name = h.steps[Len(h.steps)].name
               THEN [ret |-> "kEndOfRedpath", h |-> h,
                     undefined |-> ~Dereferenceable(h)]
               ELSE [ret |-> "kContinue", h |-> [h EXCEPT !.iter = @ + 1],
                     undefined |-> ~Dereferenceable(h)]

RECURSIVE RunRecursive(_, _, _, _, _, _)

\* The turn of the loop that appends the data set without a look at the
\* status Normalize returned.
QualifyOne_IgnoresStatus(tree, var, h, acc, ub) ==
  LET f == FilterNodeSet(h, var, ub)
      e == Ev("Filter", var.path, <<>>, <<Shown(h), Shown(f.h)>>, f.ret, 0)
  IN  IF f.undefined /\ ub.crash
        THEN [acc EXCEPT !.st.crashed = TRUE]
        ELSE IF f.ret = "kEndOfRedpath"
          THEN LET normalized_data == Normalize(tree, var, h.subquery)
                   n  == Ev("Normalize", var.path, h.subquery.subquery_id,
                            <<Shown(h)>>,
                            IF normalized_data.ok THEN "ok" ELSE "error", 0)
               IN  [acc EXCEPT !.st =
                      [Log(Log(acc.st, e), n) EXCEPT !.result =
                         AddDataSet(@, h.subquery.subquery_id,
                                    normalized_data.data)]]
          ELSE IF f.ret = "kContinue"
            THEN [st |-> Log(acc.st, e), qualified |-> Append(acc.qualified, f.h)]
            ELSE [acc EXCEPT !.st = Log(acc.st, e)]

\* The turn of the loop that forgets the handle that is to continue.
QualifyOne_LosesContinuing(tree, var, h, acc, ub) ==
  LET f == FilterNodeSet(h, var, ub)
      e == Ev("Filter", var.path, <<>>, <<Shown(h), Shown(f.h)>>, f.ret, 0)
  IN  IF f.undefined /\ ub.crash
        THEN [acc EXCEPT !.st.crashed = TRUE]
        ELSE IF f.ret = "kEndOfRedpath"
          THEN LET normalized_data == Normalize(tree, var, h.subquery)
                   n  == Ev("Normalize", var.path, h.subquery.subquery_id,
                            <<Shown(h)>>,
                            IF normalized_data.ok THEN "ok" ELSE "error", 0)
                   st1 == Log(Log(acc.st, e), n)
               IN  IF normalized_data.ok
                     THEN [acc EXCEPT !.st =
                             [st1 EXCEPT !.result =
                                AddDataSet(@, h.subquery.subquery_id,
                                           normalized_data.data)]]
                     ELSE [acc EXCEPT !.st = st1]
          ELSE [acc EXCEPT !.st = Log(acc.st, e)]

\* The turn of the loop that, at the end of the redpath, normalizes and
\* keeps the handle all the same.
QualifyOne_KeepsTerminal(tree, var, h, acc, ub) ==
  LET f == FilterNodeSet(h, var, ub)
      e == Ev("Filter", var.path, <<>>, <<Shown(h), Shown(f.h)>>, f.ret, 0)
  IN  IF f.undefined /\ ub.crash
        THEN [acc EXCEPT !.st.crashed = TRUE]
        ELSE IF f.ret = "kEndOfRedpath"
          THEN LET normalized_data == Normalize(tree, var, h.subquery)
                   n  == Ev("Normalize", var.path, h.subquery.subquery_id,
                            <<Shown(h)>>,
                            IF normalized_data.ok THEN "ok" ELSE "error", 0)
                   st1 == Log(Log(acc.st, e), n)
               IN  [st |-> IF normalized_data.ok
                             THEN [st1 EXCEPT !.result =
                                     AddDataSet(@, h.subquery.subquery_id,
                                                normalized_data.data)]
                             ELSE st1,
                    qualified |-> Append(acc.qualified, f.h)]
          ELSE IF f.ret = "kContinue"
            THEN [st |-> Log(acc.st, e), qualified |-> Append(acc.qualified, f.h)]
            ELSE [acc EXCEPT !.st = Log(acc.st, e)]

\* The turn of the loop with the else lost before the test for kContinue:
\* a handle that goes on is normalized as well.
QualifyOne_NormalizesContinuing(tree, var, h, acc, ub) ==
  LET f == FilterNodeSet(h, var, ub)
      e == Ev("Filter", var.path, <<>>, <<Shown(h), Shown(f.h)>>, f.ret, 0)
      normalized_data == Normalize(tree, var, h.subquery)
      n  == Ev("Normalize", var.path, h.subquery.subquery_id, <<Shown(h)>>,
               IF normalized_data.ok THEN "ok" ELSE "error", 0)
      st1 == Log(Log(acc.st, e), n)
      st2 == IF normalized_data.ok
               THEN [st1 EXCEPT !.result =
                       AddDataSet(@, h.subquery.subquery_id, normalized_data.data)]
               ELSE st1
  IN  IF f.undefined /\ ub.crash
        THEN [acc EXCEPT !.st.crashed = TRUE]
        ELSE IF f.ret = "kEndOfRedpath"
          THEN [acc EXCEPT !.st = st2]
          ELSE IF f.ret = "kContinue"
            THEN [st |-> st2, qualified |-> Append(acc.qualified, f.h)]
            ELSE [acc EXCEPT !.st = Log(acc.st, e)]

\* One turn of QualifyEachSubquery's loop over the handles.
\* acc = [st, qualified].
QualifyOne(tree, var, h, acc, ub) ==
  LET f == FilterNodeSet(h, var, ub)
      e == Ev("Filter", var.path, <<>>, <<Shown(h), Shown(f.h)>>, f.ret, 0)
  IN  IF f.undefined /\ ub.crash
        THEN [acc EXCEPT !.st.crashed = TRUE]
        ELSE IF f.ret = "kEndOfRedpath"
          THEN LET normalized_data == Normalize(tree, var, h.subquery)
                   n  == Ev("Normalize", var.path, h.subquery.subquery_id,
                            <<Shown(h)>>,
                            IF normalized_data.ok THEN "ok" ELSE "error", 0)
                   st1 == Log(Log(acc.st, e), n)
               IN  IF normalized_data.ok
                     THEN [acc EXCEPT !.st =
                             [st1 EXCEPT !.result =
                                AddDataSet(@, h.subquery.subquery_id,
                                           normalized_data.data)]]
                     ELSE [acc EXCEPT !.st = st1]
          ELSE IF f.ret = "kContinue"
            THEN [st |-> Log(acc.st, e), qualified |-> Append(acc.qualified, f.h)]
            ELSE [acc EXCEPT !.st = Log(acc.st, e)]

RECURSIVE QualifyLoop(_, _, _, _, _, _)
QualifyLoop(tree, var, handles, i, acc, ub) ==
  IF i > Len(handles) \/ acc.st.crashed
    THEN acc
    ELSE QualifyLoop(tree, var, handles, i + 1,
                     QualifyOne(tree, var, handles[i], acc, ub), ub)

\* QueryPlanner::QualifyEachSubquery.  handles is the callee's own copy.
QualifyEachSubquery(tree, var, handles, st, ub, depth) ==
  LET st0 == Log(st, Ev("Qualify", var.path, <<>>, ShownAll(handles), var.kind,
                        depth))
      r   == QualifyLoop(tree, var, handles, 1,
                         [st |-> st0, qualified |-> <<>>], ub)
  IN  IF r.st.crashed \/ r.qualified = <<>>
        THEN r.st
        ELSE RunRecursive(tree, var, r.qualified, r.st, ub, depth + 1)

\* The loop over the members with the handles handed on by reference: a
\* member gets them as the member before left them.
RECURSIVE QualifyMembers_ByReference(_, _, _, _, _, _, _)
QualifyMembers_ByReference(tree, members, j, handles, st, ub, depth) ==
  IF j > Len(members) \/ st.crashed
    THEN st
    ELSE QualifyMembers_ByReference(tree, members, j + 1,
           [k \in 1..Len(handles) |-> FilterNodeSet(handles[k], members[j], ub).h],
           QualifyEachSubquery(tree, members[j], handles, st, ub, depth),
           ub, depth)

\* Dispatch's loop over the members of a collection.
RECURSIVE QualifyMembers(_, _, _, _, _, _, _)
QualifyMembers(tree, members, j, handles, st, ub, depth) ==
  IF j > Len(members) \/ st.crashed
    THEN st
    ELSE QualifyMembers(tree, members, j + 1, handles,
           QualifyEachSubquery(tree, members[j], handles, st, ub, depth),
           ub, depth)

\* The test that skips what is neither an object nor iterable.
SkipsResource_UnlessIterable(variant) == ~AsObject(variant) /\ ~AsIterable(variant)

\* Dispatch's test on the looked-up resource: the group is skipped when it
\* is no object.
SkipsResource(variant) == ~AsObject(variant)

\* Dispatch's test for a collection.
IsCollection(variant) == AsIterable(variant)

\* One turn of Dispatch's loop over the map: one lookup for the node name,
\* then the qualification of the resource or of each of its members.
DispatchOne(tree, var, group, st, ub, depth) ==
  LET variant == Sub(tree, var, group.name)
      st1 == Log(st, Ev("Lookup", var.path, group.name,
                        ShownAll(group.handles), variant.kind, depth))
  IN  IF SkipsResource(variant)
        THEN st1
        ELSE IF IsCollection(variant)
               THEN QualifyMembers(tree, Members(tree, variant), 1,
                                   group.handles, st1, ub, depth)
               ELSE QualifyEachSubquery(tree, variant, group.handles, st1,
                                        ub, depth)

\* The loop over the map that returns at the first resource it skips.
RECURSIVE DispatchLoop_ReturnsOnSkip(_, _, _, _, _, _, _)
DispatchLoop_ReturnsOnSkip(tree, var, groups, k, st, ub, depth) ==
  IF k > Len(groups) \/ st.crashed
    THEN st
    ELSE IF SkipsResource(Sub(tree, var, groups[k].name))
      THEN DispatchOne(tree, var, groups[k], st, ub, depth)
      ELSE DispatchLoop_ReturnsOnSkip(tree, var, groups, k + 1,
             DispatchOne(tree, var, groups[k], st, ub, depth), ub, depth)

RECURSIVE DispatchLoop(_, _, _, _, _, _, _)
DispatchLoop(tree, var, groups, k, st, ub, depth) ==
  IF k > Len(groups) \/ st.crashed
    THEN st
    ELSE DispatchLoop(tree, var, groups, k + 1,
                      DispatchOne(tree, var, groups[k], st, ub, depth),
                      ub, depth)

\* QueryPlanner::Dispatch
Dispatch(tree, var, resource_x_sq, st, ub, depth) ==
  DispatchLoop(tree, var, resource_x_sq, 1, st, ub, depth)

\* The keys of a std::map in the order it iterates them.
RECURSIVE SortedKeys(_)
SortedKeys(S) ==
  IF S = {} THEN <<>>
  ELSE LET m == CHOOSE x \in S : \A y \in S \ {x} : StrLess(x, y)
       IN  <<m>> \o SortedKeys(S \ {m})

\* The key under which DeduplicateExpression files a handle.
GroupKey(h, ub) == NextNodeInRedpath(h, ub).name

\* DeduplicateExpression without the map: one group for every handle.
DeduplicateExpression_PerHandle(subquery_handles, ub) ==
  LET act == SelectSeq(subquery_handles,
                       LAMBDA h : NextNodeInRedpath(h, ub).has)
  IN  [k \in 1..Len(act) |->
         [name |-> GroupKey(act[k], ub), handles |-> <<act[k]>>]]

\* DeduplicateExpression with every handle put in front of its group.
DeduplicateExpression_Reversed(subquery_handles, ub) ==
  LET idx  == {k \in 1..Len(subquery_handles) :
                 NextNodeInRedpath(subquery_handles[k], ub).has}
      keys == {GroupKey(subquery_handles[k], ub) : k \in idx}
      ord  == SortedKeys(keys)
      grp(name) == SelectSeq(subquery_handles,
                     LAMBDA h : NextNodeInRedpath(h, ub).has
                                /\ GroupKey(h, ub) = name)
  IN  [k \in 1..Len(ord) |->
         [name    |-> ord[k],
          handles |-> [j \in 1..Len(grp(ord[k])) |->
                         grp(ord[k])[Len(grp(ord[k])) + 1 - j]]]]

\* QueryPlanner::DeduplicateExpression: node name -> the handles that have
\* it as their next node, in the order of subquery_handles.
DeduplicateExpression(subquery_handles, ub) ==
  LET idx  == {k \in 1..Len(subquery_handles) :
                 NextNodeInRedpath(subquery_handles[k], ub).has}
      keys == {GroupKey(subquery_handles[k], ub) : k \in idx}
      ord  == SortedKeys(keys)
  IN  [k \in 1..Len(ord) |->
         [name    |-> ord[k],
          handles |-> SelectSeq(subquery_handles,
                        LAMBDA h : NextNodeInRedpath(h, ub).has
                                   /\ GroupKey(h, ub) = ord[k])]]

\* The handles moved into the map: what is left of each is a handle with
\* no step.
HandlesAfterDeduplicate_Moved(subquery_handles) ==
  [k \in 1..Len(subquery_handles) |->
     IF subquery_handles[k].valid
       THEN [subquery_handles[k] EXCEPT !.steps = <<>>]
       ELSE subquery_handles[k]]

\* What DeduplicateExpression leaves in the vector it takes by reference:
\* NextNodeInRedpath is const and push_back(subquery_handle) copies, so
\* every handle is left as it was.
HandlesAfterDeduplicate(subquery_handles) == subquery_handles

\* Whether DeduplicateExpression reads through a cursor with no step.
ReadsUndefined(subquery_handles, ub) ==
  \E k \in 1..Len(subquery_handles) :
     NextNodeInRedpath(subquery_handles[k], ub).undefined

\* The next node of every handle, as the trace shows them.
NextNodes(handles, ub) ==
  [k \in 1..Len(handles) |-> NextNodeInRedpath(handles[k], ub).name]

\* QueryPlanner::RunRecursive
RunRecursive(tree, variant, subquery_handles, st, ub, depth) ==
  LET st0 == Log(st, Ev("RunRecursive", variant.path,
                        NextNodes(subquery_handles, ub),
                        ShownAll(subquery_handles), variant.kind, depth))
      node_to_subquery == DeduplicateExpression(subquery_handles, ub)
  IN  IF ReadsUndefined(subquery_handles, ub) /\ ub.crash
        THEN [st0 EXCEPT !.crashed = TRUE]
        ELSE IF node_to_subquery = <<>>
               THEN st0
               ELSE Dispatch(tree, variant, node_to_subquery, st0, ub, depth)

\* Run without add_query_ids.
RunPlanner_NoQueryId(tree, planner, result, t1, t2, ub) ==
  LET st0 == [result |-> [result EXCEPT !.start_timestamp = t1],
              trace |-> <<Ev("Now", <<>>, <<>>, <<>>, "", t1)>>,
              crashed |-> FALSE]
      st1 == RunRecursive(tree, Root, planner.subquery_handles, st0, ub, 0)
  IN  IF st1.crashed
        THEN st1
        ELSE [st1 EXCEPT !.result.end_timestamp = t2,
                         !.trace = Append(@, Ev("Now", <<>>, <<>>, <<>>, "", t2))]

\* Run with the plan id put in the place of the query ids.
RunPlanner_SetsQueryId(tree, planner, result, t1, t2, ub) ==
  LET r0 == [result EXCEPT !.start_timestamp = t1,
                           !.query_ids = <<planner.plan_id>>]
      st0 == [result |-> r0,
              trace |-> <<Ev("Now", <<>>, <<>>, <<>>, "", t1)>>,
              crashed |-> FALSE]
      st1 == RunRecursive(tree, Root, planner.subquery_handles, st0, ub, 0)
  IN  IF st1.crashed
        THEN st1
        ELSE [st1 EXCEPT !.result.end_timestamp = t2,
                         !.trace = Append(@, Ev("Now", <<>>, <<>>, <<>>, "", t2))]

\* Run with one reading of the clock, taken for both timestamps before the
\* walk.
RunPlanner_OneReading(tree, planner, result, t1, t2, ub) ==
  LET r0 == [result EXCEPT !.start_timestamp = t1, !.end_timestamp = t1,
                           !.query_ids = Append(@, planner.plan_id)]
      st0 == [result |-> r0,
              trace |-> <<Ev("Now", <<>>, <<>>, <<>>, "", t1)>>,
              crashed |-> FALSE]
  IN  RunRecursive(tree, Root, planner.subquery_handles, st0, ub, 0)

\* QueryPlanner::Run: the start timestamp, the plan id, the walk from the
\* root, the end timestamp.  t1 and t2 are what the clock returns.
RunPlanner(tree, planner, result, t1, t2, ub) ==
  LET r0 == [result EXCEPT !.start_timestamp = t1,
                           !.query_ids = Append(@, planner.plan_id)]
      st0 == [result |-> r0,
              trace |-> <<Ev("Now", <<>>, <<>>, <<>>, "", t1)>>,
              crashed |-> FALSE]
      st1 == RunRecursive(tree, Root, planner.subquery_handles, st0, ub, 0)
  IN  IF st1.crashed
        THEN st1
        ELSE [st1 EXCEPT !.result.end_timestamp = t2,
                         !.trace = Append(@, Ev("Now", <<>>, <<>>, <<>>, "", t2))]

\* The constructor's loop without the test: every handle is taken.
RECURSIVE ActiveHandles_All(_, _, _)
ActiveHandles_All(subqueries, k, ub) ==
  IF k > Len(subqueries)
    THEN <<>>
    ELSE <<[SubqueryHandle(subqueries[k]) EXCEPT !.ix = k]>>
           \o ActiveHandles_All(subqueries, k + 1, ub)

\* The constructor's loop over the subqueries of the query: the handles
\* whose NextNodeInRedpath is not nullopt, in the query's order.
RECURSIVE ActiveHandles(_, _, _)
ActiveHandles(subqueries, k, ub) ==
  IF k > Len(subqueries)
    THEN <<>>
    ELSE LET subquery_handle == [SubqueryHandle(subqueries[k]) EXCEPT !.ix = k]
         IN  (IF NextNodeInRedpath(subquery_handle, ub).has
                THEN <<subquery_handle>> ELSE <<>>)
               \o ActiveHandles(subqueries, k + 1, ub)

\* QueryPlanner::QueryPlanner
QueryPlannerNew(q, ub) ==
  [plan_id |-> q.query_id, subquery_handles |-> ActiveHandles(q.subquery, 1, ub)]

\* Whether the constructor reads through a cursor with no step.
ConstructorReadsUndefined(q, ub) ==
  \E k \in 1..Len(q.subquery) :
     NextNodeInRedpath(SubqueryHandle(q.subquery[k]), ub).undefined

(***************************************************************************)
(* The inputs: queries and trees.                                          *)
(***************************************************************************)
SubqueryIds == {"S1", "S2"}

\* The properties a subquery asks for.
PropertiesFor(id) == IF id = "S1" THEN <<"P1">> ELSE <<"P1", "P2">>

Subquery(id, redpath) ==
  [subquery_id |-> id, redpath |-> redpath, properties |-> PropertiesFor(id)]

\* Subqueries that end on the first, second and third level, two of them
\* under one id and one whose last node name is also its first; one with no
\* brackets, one with an unknown predicate, one with its brackets reversed
\* and one with no step at all.
SubqueryPool ==
  { Subquery("S1", <<"/","A","[","*","]">>),
    Subquery("S2", <<"/","A","[","*","]","/","B","[","*","]">>),
    Subquery("S1", <<"/","A","[","*","]","/","B","[","*","]","/","A","[","*","]">>),
    Subquery("S2", <<"/","B","[","*","]">>),
    Subquery("S1", <<"/","A","*">>),
    Subquery("S2", <<"/","A","[","x","]">>),
    Subquery("S2", <<"/","]","B","[","*">>),
    Subquery("S1", <<>>) }

SeqsUpTo(S, n) == UNION { [1..k -> S] : k \in 0..n }

Queries ==
  { [query_id |-> "Q1", subquery |-> sq] : sq \in SeqsUpTo(SubqueryPool, MaxSubqueries) }

HasIterable(kind) == \E n \in TreeNames : kind[n] \in {"collection", "array"}

\* Every tree is written in one way only: no members, and no odd member,
\* where nothing would show them.  The collections with an odd member are
\* the full ones.
Trees ==
  { t \in [kind : [TreeNames -> Kinds], nmem : 0..MaxMembers,
           odd : 0..MaxMembers, attr : Attrs] :
      /\ t.kind[<<"B">>] \in {"object", "collection"}
      /\ t.odd <= t.nmem
      /\ (t.odd > 0 => t.nmem = MaxMembers)
      /\ (t.odd = 0 => t.attr = "scalar")
      /\ (~HasIterable(t.kind) => t.nmem = 0) }

\* What a read through a cursor with no step may do.  The predicate is
\* only ever called where the name read is that of a resource, so the
\* outcomes with another name are written with accept = TRUE only.
UndefinedOutcomes ==
  [crash : {TRUE}, name : {<<"?">>}, accept : {TRUE}]
    \cup [crash : {FALSE}, name : {<<"A">>}, accept : BOOLEAN]
    \cup [crash : {FALSE}, name : {<<"?">>}, accept : {TRUE}]

\* The outcome written down where nothing undefined is read.
NoUndefined == [crash |-> FALSE, name |-> <<"?">>, accept |-> TRUE]

\* By how much the clock may advance while one Run executes.
Ticks == {0, 1}

\* The redpaths of the path-compiler specification: every string of at most
\* MaxLen characters.
PathChars == {"/", "A", "[", "]", "*"}
AllRedpaths == SeqsUpTo(PathChars, MaxLen)

(***************************************************************************)
(* The state machine.                                                      *)
(***************************************************************************)
VARIABLES
  query,      \* the DelliciusQuery the planner is made from
  tree,       \* the Redfish service the planner runs against
  planner,    \* the QueryPlanner: plan_id_ and subquery_handles_
  result,     \* the DelliciusQueryResult handed to Run
  trace,      \* the calls of the last Run
  clock,      \* what Clock::Now() returns
  undefined,  \* what the undefined reads of the last operation did
  pc,         \* "new", "ready" (constructed), "done" (Run returned), "crashed"
  fake_clock, \* the FakeClock: time_ and whether sleep_ holds a function
  sleep_calls,\* the durations the supplied sleep function was called with
  calls,      \* the calls made on the FakeClock, with what each returned
  cache,      \* the TimeBasedCache: per URI, the payload held and its time
  server,     \* the Redfish server: per URI, its content and its GET handler
  held,       \* the payloads and the objects the caller holds
  last        \* the last call on the RedfishInterface, with its outcome

vars == <<query, tree, planner, result, trace, clock, undefined, pc,
          fake_clock, sleep_calls, calls, cache, server, held, last>>

\* The planner's state, and the state of the clock and of the interface.
planner_vars == <<query, tree, planner, result, trace, clock, undefined, pc>>
intf_vars == <<fake_clock, sleep_calls, calls, cache, server, held, last>>

\* No FakeClock and no RedfishInterface have been made.
NoInterface ==
  /\ fake_clock = [time_ |-> 0, sleep_ |-> FALSE]
  /\ sleep_calls = <<>>
  /\ calls = <<>>
  /\ cache = <<>>
  /\ server = <<>>
  /\ held = {}
  /\ last = [op |-> "none"]

NoPlanner == [plan_id |-> "", subquery_handles |-> <<>>]

Init ==
  /\ query \in Queries
  /\ tree \in Trees
  /\ planner = NoPlanner
  /\ result = EmptyResult
  /\ trace = <<>>
  /\ clock = 0
  /\ undefined = NoUndefined
  /\ pc = "new"
  /\ NoInterface

\* new QueryPlanner(query, normalizer).  The constructor only tests what it
\* reads through a cursor against nullopt, so an undefined read either
\* kills the process or lets the handle in.
Construct ==
  /\ pc = "new"
  /\ \E ub \in {u \in UndefinedOutcomes : u.crash \/ u = NoUndefined} :
       /\ (ub # NoUndefined => ConstructorReadsUndefined(query, ub))
       /\ undefined' = ub
       /\ IF ConstructorReadsUndefined(query, ub) /\ ub.crash
            THEN pc' = "crashed" /\ planner' = planner
            ELSE pc' = "ready" /\ planner' = QueryPlannerNew(query, ub)
  /\ UNCHANGED <<query, tree, result, trace, clock>>
  /\ UNCHANGED intf_vars

\* Whether the planner holds a handle with no step.
HasStepless(p) ==
  \E k \in 1..Len(p.subquery_handles) : p.subquery_handles[k].steps = <<>>

\* planner.Run(root, clock, result), the clock advancing by d meanwhile.
\* The outcomes of undefined reads are taken with the advancing clock.
Run ==
  /\ pc = "ready"
  /\ \E ub \in UndefinedOutcomes, d \in Ticks :
       LET st == RunPlanner(tree, planner, result, clock, clock + d, ub)
       IN  /\ (ub # NoUndefined => HasStepless(planner) /\ d = 1)
           /\ undefined' = ub
           /\ result' = st.result
           /\ trace' = st.trace
           /\ clock' = clock + d
           /\ pc' = IF st.crashed THEN "crashed" ELSE "done"
  /\ planner' = [planner EXCEPT
                   !.subquery_handles = HandlesAfterDeduplicate(@)]
  /\ UNCHANGED <<query, tree>>
  /\ UNCHANGED intf_vars

Next == Construct \/ Run

Spec == Init /\ [][Next]_vars

(***************************************************************************)
(* The path compiler alone: one subquery, every redpath.                   *)
(***************************************************************************)
InitCompile ==
  /\ query \in { [query_id |-> "Q1", subquery |-> <<Subquery("S1", p)>>] :
                   p \in AllRedpaths }
  /\ tree = [kind |-> [n \in TreeNames |-> "object"], nmem |-> 0, odd |-> 0,
             attr |-> "scalar"]
  /\ planner = NoPlanner
  /\ result = EmptyResult
  /\ trace = <<>>
  /\ clock = 0
  /\ undefined = NoUndefined
  /\ pc = "new"
  /\ NoInterface

SpecCompile == InitCompile /\ [][Construct]_vars

(***************************************************************************)
(* Run into a result that is in use: the caller hands Run a result that    *)
(* holds the query ids and the records of earlier runs.                    *)
(***************************************************************************)
\* A record of an earlier run.
PriorRecord == [view |-> <<[n |-> <<"Z">>, i |-> 0]>>, props |-> <<"P1">>]

PriorResults ==
  { EmptyResult,
    [query_ids |-> <<"Q0">>, start_timestamp |-> 0, end_timestamp |-> 0,
     subquery_output_by_id |-> [id \in {"S1"} |-> <<PriorRecord>>]],
    [query_ids |-> <<"Q1", "Q0">>, start_timestamp |-> 0, end_timestamp |-> 0,
     subquery_output_by_id |->
       [id \in SubqueryIds |->
          IF id = "S1" THEN <<PriorRecord>> ELSE <<PriorRecord, PriorRecord>>]] }

\* The subqueries of these runs: every one compiles to a step or more.
AppendPool ==
  { Subquery("S1", <<"/","A","[","*","]">>),
    Subquery("S2", <<"/","A","[","*","]","/","B","[","*","]">>),
    Subquery("S2", <<"/","B","[","*","]">>) }

InitAppend ==
  /\ query \in { [query_id |-> "Q1", subquery |-> sq] :
                   sq \in SeqsUpTo(AppendPool, MaxSubqueries) }
  /\ tree \in Trees
  /\ planner = NoPlanner
  /\ result \in PriorResults
  /\ trace = <<>>
  /\ clock = 0
  /\ undefined = NoUndefined
  /\ pc = "new"
  /\ NoInterface

SpecAppend == InitAppend /\ [][Next]_vars

(***************************************************************************)
(* Redpaths of three steps whose last node name differs from the others,   *)
(* so that a Run goes two levels down, next to shorter ones and to the     *)
(* empty one.                                                              *)
(***************************************************************************)
DeepPool ==
  { Subquery("S1", <<"/","A","[","*","]","/","A","[","*","]","/","B","[","*","]">>),
    Subquery("S2", <<"/","A","[","*","]","/","A","[","*","]","/","B","[","*","]">>),
    Subquery("S2", <<"/","A","[","*","]","/","B","[","*","]">>),
    Subquery("S1", <<"/","A","[","*","]">>),
    Subquery("S1", <<>>) }

InitDeep ==
  /\ query \in { [query_id |-> "Q1", subquery |-> sq] :
                   sq \in SeqsUpTo(DeepPool, MaxSubqueries) }
  /\ tree \in Trees
  /\ planner = NoPlanner
  /\ result = EmptyResult
  /\ trace = <<>>
  /\ clock = 0
  /\ undefined = NoUndefined
  /\ pc = "new"
  /\ NoInterface

SpecDeep == InitDeep /\ [][Next]_vars

(***************************************************************************)
(* The fake clock.  Times and durations are whole seconds; a duration is   *)
(* signed, as absl::Duration is.                                           *)
(***************************************************************************)
MaxCalls == 3
MaxDuration == 2
Durations == (0 - 1)..MaxDuration
StartTimes == {0, 5}

\* FakeClock(now) and FakeClock(now, sleep): sleep_ tells whether a sleep
\* function was supplied.
FakeClockNew(now, sleep) == [time_ |-> now, sleep_ |-> sleep]

\* Now().
Now(c) == c.time_

\* AdvanceTime(duration): time_ += duration.
AdvanceTime(c, duration) == [c EXCEPT !.time_ = @ + duration]

\* SleepFor(d).
SleepFor(c, d) == AdvanceTime(c, d)

\* Sleep(d) with a sleep function that does as the supplied one must not:
\* it is called and the clock advances as well.
Sleep_AlsoAdvances(c, slept, d) ==
  IF c.sleep_
    THEN [clock |-> SleepFor(c, d), slept |-> Append(slept, d)]
    ELSE [clock |-> SleepFor(c, d), slept |-> slept]

\* Sleep(d): the supplied function is called with d, or else SleepFor(d).
\* Gives the clock and the calls of the supplied function afterwards.
Sleep(c, slept, d) ==
  IF c.sleep_
    THEN [clock |-> c, slept |-> Append(slept, d)]
    ELSE [clock |-> SleepFor(c, d), slept |-> slept]

\* A call on the clock: its name, its argument, Now() before and after it.
Call(op, d, before, after) ==
  [op |-> op, d |-> d, before |-> before, after |-> after]

InitClock ==
  /\ query = [query_id |-> "", subquery |-> <<>>]
  /\ tree = [kind |-> [n \in TreeNames |-> "object"], nmem |-> 0, odd |-> 0,
             attr |-> "scalar"]
  /\ planner = NoPlanner
  /\ result = EmptyResult
  /\ trace = <<>>
  /\ clock = 0
  /\ undefined = NoUndefined
  /\ pc = "new"
  /\ \E now \in StartTimes, sleep \in BOOLEAN :
       /\ fake_clock = FakeClockNew(now, sleep)
       /\ calls = <<Call("FakeClock", now, now, now)>>
  /\ sleep_calls = <<>>
  /\ cache = <<>>
  /\ server = <<>>
  /\ held = {}
  /\ last = [op |-> "none"]

CallNow ==
  /\ Len(calls) <= MaxCalls
  /\ calls' = Append(calls, Call("Now", 0, Now(fake_clock), Now(fake_clock)))
  /\ UNCHANGED <<fake_clock, sleep_calls, cache, server, held, last>>
  /\ UNCHANGED planner_vars

CallAdvanceTime ==
  /\ Len(calls) <= MaxCalls
  /\ \E d \in Durations :
       /\ fake_clock' = AdvanceTime(fake_clock, d)
       /\ calls' = Append(calls, Call("AdvanceTime", d, Now(fake_clock),
                                      Now(fake_clock')))
  /\ UNCHANGED <<sleep_calls, cache, server, held, last>>
  /\ UNCHANGED planner_vars

CallSleepFor ==
  /\ Len(calls) <= MaxCalls
  /\ \E d \in Durations :
       /\ fake_clock' = SleepFor(fake_clock, d)
       /\ calls' = Append(calls, Call("SleepFor", d, Now(fake_clock),
                                      Now(fake_clock')))
  /\ UNCHANGED <<sleep_calls, cache, server, held, last>>
  /\ UNCHANGED planner_vars

CallSleep ==
  /\ Len(calls) <= MaxCalls
  /\ \E d \in Durations :
       LET after == Sleep(fake_clock, sleep_calls, d)
       IN  /\ fake_clock' = after.clock
           /\ sleep_calls' = after.slept
           /\ calls' = Append(calls, Call("Sleep", d, Now(fake_clock),
                                          Now(after.clock)))
  /\ UNCHANGED <<cache, server, held, last>>
  /\ UNCHANGED planner_vars

NextClock == CallNow \/ CallAdvanceTime \/ CallSleepFor \/ CallSleep

SpecClock == InitClock /\ [][NextClock]_vars

(***************************************************************************)
(* The RedfishInterface over a TimeBasedCache, as the test fixture makes   *)
(* it: a fake server with two resources, the first of which refers to the  *)
(* second, a FakeClock, and a cache of maximum age one minute.             *)
(***************************************************************************)
MaxAge == 60
MaxGets == 2
MaxAdvances == 2
ParentUri == "/my/uri"
ChildUri == "/my/other/uri"
Uris == {ParentUri, ChildUri}
Versions == {1, 2}
Advances == {1, MaxAge, MaxAge + 1}

\* What the server replies to a GET of uri: the resource as it is now.
Payload(srv, uri) ==
  [uri |-> uri, version |-> srv[uri].version, odata_id |-> srv[uri].odata_id]

\* The URI the property "Reference" of a payload refers to.
Reference(payload) == IF payload.uri = ParentUri THEN ChildUri ELSE ""

NoPayload == [uri |-> "", version |-> 0, odata_id |-> ""]
NoEntry == [present |-> FALSE, payload |-> NoPayload, at |-> 0]

\* The GET handler of uri runs: it counts the call and replies.  The server
\* also keeps what it replied, when and to which call of the interface.
Get(srv, now, uri, by) ==
  [srv EXCEPT ![uri] = [@ EXCEPT !.called_count = @ + 1,
                                 !.served = Payload(srv, uri),
                                 !.at = now,
                                 !.by = by]]

\* A cache that counts the age of an entry from its last use.
CachedGet_RenewsOnUse(c, srv, now, uri, by, at_age) ==
  IF c[uri].present
     /\ (now - c[uri].at < MaxAge \/ (now - c[uri].at = MaxAge /\ at_age))
    THEN [cache |-> [c EXCEPT ![uri].at = now], server |-> srv,
          payload |-> c[uri].payload, gets |-> 0]
    ELSE [cache |-> [c EXCEPT ![uri] = [present |-> TRUE,
                                        payload |-> Payload(srv, uri),
                                        at |-> now]],
          server |-> Get(srv, now, uri, by),
          payload |-> Payload(srv, uri), gets |-> 1]

\* TimeBasedCache::CachedGet(uri): the payload held when it is younger than
\* the maximum age, else a GET whose reply is kept with the time it was
\* fetched at.  at_age tells what the cache does with an entry of exactly
\* the maximum age.
CachedGet(c, srv, now, uri, by, at_age) ==
  IF c[uri].present
     /\ (now - c[uri].at < MaxAge \/ (now - c[uri].at = MaxAge /\ at_age))
    THEN [cache |-> c, server |-> srv,
          payload |-> c[uri].payload, gets |-> 0]
    ELSE [cache |-> [c EXCEPT ![uri] = [present |-> TRUE,
                                        payload |-> Payload(srv, uri),
                                        at |-> now]],
          server |-> Get(srv, now, uri, by),
          payload |-> Payload(srv, uri), gets |-> 1]

\* An operator[] that asks the transport, not the cache.
Subscript_Uncached(c, srv, now, copy, at_age) ==
  LET uri == Reference(copy)
  IN  [cache |-> c, server |-> Get(srv, now, uri, "operator[]"),
       payload |-> Payload(srv, uri), gets |-> 1]

\* copy["Reference"]: the resource the property refers to, got through the
\* cache of the interface the copy came from.
Subscript(c, srv, now, copy, at_age) ==
  CachedGet(c, srv, now, Reference(copy), "operator[]", at_age)

\* What the last call was and what came of it.
Outcome(op, uri, out) ==
  [op |-> op, uri |-> uri, payload |-> out.payload, gets |-> out.gets]

InitCache ==
  /\ query = [query_id |-> "", subquery |-> <<>>]
  /\ tree = [kind |-> [n \in TreeNames |-> "object"], nmem |-> 0, odd |-> 0,
             attr |-> "scalar"]
  /\ planner = NoPlanner
  /\ result = EmptyResult
  /\ trace = <<>>
  /\ clock = 0
  /\ undefined = NoUndefined
  /\ pc = "new"
  /\ fake_clock = FakeClockNew(0, FALSE)
  /\ calls = <<Call("FakeClock", 0, 0, 0)>>
  /\ sleep_calls = <<>>
  /\ cache = [u \in Uris |-> NoEntry]
  /\ server = [u \in Uris |-> [version |-> 1, odata_id |-> "",
                               called_count |-> 0,
                               served |-> NoPayload, at |-> 0, by |-> "none"]]
  /\ held = {}
  /\ last = [op |-> "none"]

\* intf_->CachedGetUri(uri); the caller keeps what it got of the parent.
CachedGetUri(uri) ==
  /\ \E at_age \in BOOLEAN :
       LET out == CachedGet(cache, server, Now(fake_clock), uri,
                            "CachedGetUri", at_age)
       IN  /\ out.server[uri].called_count <= MaxGets
           /\ cache' = out.cache
           /\ server' = out.server
           /\ last' = Outcome("CachedGetUri", uri, out)
           /\ held' = IF uri = ParentUri THEN held \cup {out.payload} ELSE held
  /\ UNCHANGED <<fake_clock, sleep_calls, calls>>
  /\ UNCHANGED planner_vars

\* copy["Reference"] on a copy of the parent the caller holds.
Navigate(copy) ==
  /\ copy \in held
  /\ \E at_age \in BOOLEAN :
       LET out == Subscript(cache, server, Now(fake_clock), copy, at_age)
       IN  /\ out.server[Reference(copy)].called_count <= MaxGets
           /\ cache' = out.cache
           /\ server' = out.server
           /\ last' = Outcome("operator[]", Reference(copy), out)
  /\ UNCHANGED <<fake_clock, sleep_calls, calls, held>>
  /\ UNCHANGED planner_vars

\* clock_.AdvanceTime(d).
AdvanceClock ==
  /\ Len(calls) <= MaxAdvances
  /\ \E d \in Advances :
       /\ fake_clock' = AdvanceTime(fake_clock, d)
       /\ calls' = Append(calls, Call("AdvanceTime", d, Now(fake_clock),
                                      Now(fake_clock')))
  /\ last' = [op |-> "AdvanceTime"]
  /\ UNCHANGED <<sleep_calls, cache, server, held>>
  /\ UNCHANGED planner_vars

\* The resource at uri changes on the server.
ServerChange ==
  /\ \E uri \in Uris, v \in Versions :
       /\ v # server[uri].version
       /\ server' = [server EXCEPT ![uri].version = v]
  /\ last' = [op |-> "change"]
  /\ UNCHANGED <<fake_clock, sleep_calls, calls, cache, held>>
  /\ UNCHANGED planner_vars

NextCache ==
  \/ \E uri \in Uris : CachedGetUri(uri)
  \/ \E copy \in held : Navigate(copy)
  \/ AdvanceClock
  \/ ServerChange

SpecCache == InitCache /\ [][NextCache]_vars

(***************************************************************************)
(* Objects and their freshness: the interface over one resource whose      *)
(* payload names itself by @odata.id, or does not.                         *)
(***************************************************************************)
\* A RedfishObject: its payload and whether the payload came from the
\* backend for this very object (fresh) or out of the cache.
Object(payload, fresh) == [payload |-> payload, fresh |-> fresh]
NoObject == Object(NoPayload, FALSE)

\* TimeBasedCache::UncachedGet(uri): always a GET.  updates tells whether
\* the cache keeps the reply.
UncachedGet(c, srv, now, uri, by, updates) ==
  [cache |-> IF updates
               THEN [c EXCEPT ![uri] = [present |-> TRUE,
                                        payload |-> Payload(srv, uri),
                                        at |-> now]]
               ELSE c,
   server |-> Get(srv, now, uri, by),
   payload |-> Payload(srv, uri), gets |-> 1]

\* An EnsureFreshPayload that does not look at where the payload came from.
EnsureFreshPayload_AlwaysGets(c, srv, now, obj, updates) ==
  IF obj.payload.odata_id = ""
    THEN [cache |-> c, server |-> srv, object |-> NoObject, gets |-> 0]
    ELSE LET out == UncachedGet(c, srv, now, obj.payload.odata_id,
                                "EnsureFreshPayload", updates)
         IN  [cache |-> out.cache, server |-> out.server,
              object |-> Object(out.payload, TRUE), gets |-> 1]

\* An EnsureFreshPayload that falls back on the URI the object was got
\* from when the payload has no @odata.id.
EnsureFreshPayload_ByPath(c, srv, now, obj, updates) ==
  IF obj.fresh
    THEN [cache |-> c, server |-> srv, object |-> obj, gets |-> 0]
    ELSE LET out == UncachedGet(c, srv, now, obj.payload.uri,
                                "EnsureFreshPayload", updates)
         IN  [cache |-> out.cache, server |-> out.server,
              object |-> Object(out.payload, TRUE), gets |-> 1]

\* obj->EnsureFreshPayload(): a fresh object is returned as it is; one out
\* of the cache is got again, uncached, from the URI its @odata.id names,
\* and there is no object when the payload has no @odata.id.
EnsureFreshPayload(c, srv, now, obj, updates) ==
  IF obj.fresh
    THEN [cache |-> c, server |-> srv, object |-> obj, gets |-> 0]
  ELSE IF obj.payload.odata_id = ""
    THEN [cache |-> c, server |-> srv, object |-> NoObject, gets |-> 0]
    ELSE LET out == UncachedGet(c, srv, now, obj.payload.odata_id,
                                "EnsureFreshPayload", updates)
         IN  [cache |-> out.cache, server |-> out.server,
              object |-> Object(out.payload, TRUE), gets |-> 1]

InitFresh ==
  /\ query = [query_id |-> "", subquery |-> <<>>]
  /\ tree = [kind |-> [n \in TreeNames |-> "object"], nmem |-> 0, odd |-> 0,
             attr |-> "scalar"]
  /\ planner = NoPlanner
  /\ result = EmptyResult
  /\ trace = <<>>
  /\ clock = 0
  /\ undefined = NoUndefined
  /\ pc = "new"
  /\ fake_clock = FakeClockNew(0, FALSE)
  /\ calls = <<Call("FakeClock", 0, 0, 0)>>
  /\ sleep_calls = <<>>
  /\ cache = [u \in {ParentUri} |-> NoEntry]
  /\ \E id \in {"", ParentUri} :
       server = [u \in {ParentUri} |->
                   [version |-> 1, odata_id |-> id, called_count |-> 0,
                    served |-> NoPayload, at |-> 0, by |-> "none"]]
  /\ held = {}
  /\ last = [op |-> "none"]

\* intf_->CachedGetUri("/my/uri").AsObject().
CachedGetObject ==
  /\ \E at_age \in BOOLEAN :
       LET out == CachedGet(cache, server, Now(fake_clock), ParentUri,
                            "CachedGetUri", at_age)
           obj == Object(out.payload, out.gets = 1)
       IN  /\ out.server[ParentUri].called_count <= MaxGets
           /\ cache' = out.cache
           /\ server' = out.server
           /\ last' = [op |-> "CachedGetUri", object |-> obj,
                       gets |-> out.gets]
           /\ held' = held \cup {obj}
  /\ UNCHANGED <<fake_clock, sleep_calls, calls>>
  /\ UNCHANGED planner_vars

\* intf_->UncachedGetUri("/my/uri").AsObject().
UncachedGetObject ==
  /\ \E updates \in BOOLEAN :
       LET out == UncachedGet(cache, server, Now(fake_clock), ParentUri,
                              "UncachedGetUri", updates)
           obj == Object(out.payload, TRUE)
       IN  /\ out.server[ParentUri].called_count <= MaxGets
           /\ cache' = out.cache
           /\ server' = out.server
           /\ last' = [op |-> "UncachedGetUri", object |-> obj,
                       gets |-> out.gets]
           /\ held' = held \cup {obj}
  /\ UNCHANGED <<fake_clock, sleep_calls, calls>>
  /\ UNCHANGED planner_vars

\* obj->EnsureFreshPayload() on an object the caller holds.
EnsureFresh(obj) ==
  /\ obj \in held
  /\ \E updates \in BOOLEAN :
       LET out == EnsureFreshPayload(cache, server, Now(fake_clock), obj,
                                     updates)
       IN  /\ out.server[ParentUri].called_count <= MaxGets
           /\ cache' = out.cache
           /\ server' = out.server
           /\ last' = [op |-> "EnsureFreshPayload", object |-> out.object,
                       gets |-> out.gets, of |-> obj]
           /\ held' = IF out.object = NoObject THEN held
                                               ELSE held \cup {out.object}
  /\ UNCHANGED <<fake_clock, sleep_calls, calls>>
  /\ UNCHANGED planner_vars

\* The resource changes on the server; it keeps its @odata.id.
ResourceChange ==
  /\ \E v \in Versions :
       /\ v # server[ParentUri].version
       /\ server' = [server EXCEPT ![ParentUri].version = v]
  /\ last' = [op |-> "change"]
  /\ UNCHANGED <<fake_clock, sleep_calls, calls, cache, held>>
  /\ UNCHANGED planner_vars

NextFresh ==
  \/ CachedGetObject
  \/ UncachedGetObject
  \/ \E obj \in held : EnsureFresh(obj)
  \/ AdvanceClock
  \/ ResourceChange

SpecFresh == InitFresh /\ [][NextFresh]_vars

(***************************************************************************)
(* The dynamic mockup server: custom handlers by method and URI over the   *)
(* mockup's own resources.                                                 *)
(***************************************************************************)
MaxHandlers == 3
Methods == {"GET", "POST", "PATCH"}
RootUri == "/redfish/v1"
ChassisUri == "/redfish/v1/Chassis"
MockUris == {RootUri, ChassisUri}
Slots == Methods \X MockUris

\* What the mockup itself replies: its resource to a GET, no content to a
\* POST or a PATCH.
MockupReply(method, uri) ==
  [ok |-> TRUE, called |-> 0,
   body |-> IF method # "GET" THEN ""
            ELSE IF uri = RootUri THEN "Root Service" ELSE "Chassis Collection"]

\* AddHttpGetHandler, AddHttpPostHandler, AddHttpPatchHandler: the handler
\* id takes the place of whatever handler the method and URI had.
AddHttpHandler(srv, method, uri, id) ==
  [srv EXCEPT !.handlers[<<method, uri>>] = id]

\* A ClearHandlers that forgets the handlers of GET only.
ClearHandlers_GetOnly(srv) ==
  [srv EXCEPT !.handlers =
     [slot \in Slots |-> IF slot[1] = "GET" THEN 0 ELSE srv.handlers[slot]]]

\* ClearHandlers(): no method has a handler for any URI.
ClearHandlers(srv) == [srv EXCEPT !.handlers = [slot \in Slots |-> 0]]

\* A request as the server answers it: by the handler registered for the
\* method and URI when there is one, else by the mockup.
Serve(srv, method, uri) ==
  IF srv.handlers[<<method, uri>>] # 0
    THEN [ok |-> TRUE, called |-> srv.handlers[<<method, uri>>], body |-> ""]
    ELSE MockupReply(method, uri)

InitMockup ==
  /\ query = [query_id |-> "", subquery |-> <<>>]
  /\ tree = [kind |-> [n \in TreeNames |-> "object"], nmem |-> 0, odd |-> 0,
             attr |-> "scalar"]
  /\ planner = NoPlanner
  /\ result = EmptyResult
  /\ trace = <<>>
  /\ clock = 0
  /\ undefined = NoUndefined
  /\ pc = "new"
  /\ fake_clock = [time_ |-> 0, sleep_ |-> FALSE]
  /\ sleep_calls = <<>>
  /\ calls = <<>>
  /\ cache = <<>>
  /\ server = [handlers |-> [slot \in Slots |-> 0], registered |-> 0,
               cleared |-> 0]
  /\ held = {}
  /\ last = [op |-> "none"]

\* mockup_server_->AddHttp<Method>Handler(uri, handler).  The server counts
\* the handlers it was given; a handler is known by its number.
CallAddHandler ==
  /\ server.registered < MaxHandlers
  /\ \E method \in Methods, uri \in MockUris :
       /\ server' = [AddHttpHandler(server, method, uri, server.registered + 1)
                       EXCEPT !.registered = @ + 1]
       /\ last' = [op |-> "AddHandler", method |-> method, uri |-> uri]
  /\ UNCHANGED <<fake_clock, sleep_calls, calls, cache, held>>
  /\ UNCHANGED planner_vars

\* mockup_server_->ClearHandlers().  cleared is the number of the last
\* handler given before it.
CallClearHandlers ==
  /\ server' = [ClearHandlers(server) EXCEPT !.cleared = server.registered]
  /\ last' = [op |-> "ClearHandlers"]
  /\ UNCHANGED <<fake_clock, sleep_calls, calls, cache, held>>
  /\ UNCHANGED planner_vars

\* client_->Get(uri), client_->Post(uri, data), client_->Patch(uri, data).
CallRequest ==
  /\ \E method \in Methods, uri \in MockUris :
       last' = [op |-> "Request", method |-> method, uri |-> uri,
                reply |-> Serve(server, method, uri)]
  /\ UNCHANGED <<fake_clock, sleep_calls, calls, cache, server, held>>
  /\ UNCHANGED planner_vars

NextMockup == CallAddHandler \/ CallClearHandlers \/ CallRequest

SpecMockup == InitMockup /\ [][NextMockup]_vars

(***************************************************************************)
(* The transport that is none.                                             *)
(***************************************************************************)
MaxPath == 3
TransportPaths == SeqsUpTo({"/", "A"}, MaxPath)
TransportData == {<<>>, <<"{", "}">>, <<"x">>}

\* absl::InternalError(message), as an absl::StatusOr<Result> holds it.
InternalError(message) ==
  [ok |-> FALSE, code |-> "INTERNAL", message |-> message,
   result |-> [code |-> 0, body |-> "discarded"], has_result |-> FALSE]

\* A StatusOr holding a Result as it is default-constructed.
OkResult ==
  [ok |-> TRUE, code |-> "OK", message |-> "",
   result |-> [code |-> 0, body |-> "discarded"], has_result |-> TRUE]

\* A Delete that answers as an empty transport might: with an empty Result.
NullDelete_Succeeds(path, data) == OkResult

\* NullTransport::GetRootUri, Get, Post, Patch, Delete.
NullGetRootUri == <<>>
NullGet(path) == InternalError("NullTransport")
NullPost(path, data) == InternalError("NullTransport")
NullPatch(path, data) == InternalError("NullTransport")
NullDelete(path, data) == InternalError("NullTransport")

InitNull ==
  /\ query = [query_id |-> "", subquery |-> <<>>]
  /\ tree = [kind |-> [n \in TreeNames |-> "object"], nmem |-> 0, odd |-> 0,
             attr |-> "scalar"]
  /\ planner = NoPlanner
  /\ result = EmptyResult
  /\ trace = <<>>
  /\ clock = 0
  /\ undefined = NoUndefined
  /\ pc = "new"
  /\ NoInterface

\* The last call on the transport and what it returned.
TransportCall(op, path, data, ret) ==
  [op |-> op, path |-> path, data |-> data, ret |-> ret]

CallGet ==
  /\ \E path \in TransportPaths :
       last' = TransportCall("Get", path, <<>>, NullGet(path))
  /\ UNCHANGED <<fake_clock, sleep_calls, calls, cache, server, held>>
  /\ UNCHANGED planner_vars

CallPost ==
  /\ \E path \in TransportPaths, data \in TransportData :
       last' = TransportCall("Post", path, data, NullPost(path, data))
  /\ UNCHANGED <<fake_clock, sleep_calls, calls, cache, server, held>>
  /\ UNCHANGED planner_vars

CallPatch ==
  /\ \E path \in TransportPaths, data \in TransportData :
       last' = TransportCall("Patch", path, data, NullPatch(path, data))
  /\ UNCHANGED <<fake_clock, sleep_calls, calls, cache, server, held>>
  /\ UNCHANGED planner_vars

CallDelete ==
  /\ \E path \in TransportPaths, data \in TransportData :
       last' = TransportCall("Delete", path, data, NullDelete(path, data))
  /\ UNCHANGED <<fake_clock, sleep_calls, calls, cache, server, held>>
  /\ UNCHANGED planner_vars

NextNull == CallGet \/ CallPost \/ CallPatch \/ CallDelete

SpecNull == InitNull /\ [][NextNull]_vars

(***************************************************************************)
(* What the claims speak of.                                               *)
(***************************************************************************)
\* The records of a subquery id in a result.
Bucket(res, id) ==
  IF id \in DOMAIN res.subquery_output_by_id
    THEN res.subquery_output_by_id[id] ELSE <<>>

\* The handle of the planner that was made from the ix-th subquery.
HandleOf(ix) ==
  CHOOSE h \in {planner.subquery_handles[k] : k \in 1..Len(planner.subquery_handles)} :
    h.ix = ix

\* The events of the last Run of one kind.
Events(op) == {k \in 1..Len(trace) : trace[k].op = op}

\* The number of resources reached from v by the node names of steps, from
\* the k-th on, a collection standing for its members, that normalize under
\* the subquery.
RECURSIVE MatchCount(_, _, _, _, _)
RECURSIVE MatchCountMembers(_, _, _, _, _, _)
MatchCount(t, v, steps, k, sq) ==
  IF k > Len(steps)
    THEN IF Normalize(t, v, sq).ok THEN 1 ELSE 0
    ELSE LET c == Sub(t, v, steps[k].name)
         IN  IF ~AsObject(c) THEN 0
             ELSE IF AsIterable(c)
                    THEN MatchCountMembers(t, Members(t, c), 1, steps, k, sq)
                    ELSE MatchCount(t, c, steps, k + 1, sq)
MatchCountMembers(t, members, j, steps, k, sq) ==
  IF j > Len(members) THEN 0
  ELSE MatchCount(t, members[j], steps, k + 1, sq)
         + MatchCountMembers(t, members, j + 1, steps, k, sq)

\* The records the subqueries of an id, from the k-th on, are to produce:
\* the matches of those whose path is valid and has a step.
RECURSIVE ExpectedRecords(_, _)
ExpectedRecords(id, k) ==
  IF k > Len(query.subquery) THEN 0
  ELSE LET sq == query.subquery[k]
           h  == SubqueryHandle(sq)
       IN  (IF sq.subquery_id = id /\ h.valid /\ h.steps # <<>>
              THEN MatchCount(tree, Root, h.steps, 1, sq) ELSE 0)
             + ExpectedRecords(id, k + 1)

\* C1: after Run, the bucket of every subquery id holds as many records as
\* there are resources reached by the complete step sequence of the valid
\* subqueries of that id on which Normalize succeeds; so for every valid
\* path, one with a repeated node name included.
C1_RecordCountMatchesPath ==
  pc = "done" =>
    \A id \in SubqueryIds : Len(Bucket(result, id)) = ExpectedRecords(id, 1)

\* C2: FilterNodeSet, the predicate accepting, ends the redpath exactly when
\* the cursor is on the last step of the handle, and otherwise advances the
\* cursor by one and continues.
C2_EndOfRedpathIffLastStep ==
  \A k \in Events("Filter") :
    LET before == trace[k].hs[1]
        after  == trace[k].hs[2]
        nsteps == Len(HandleOf(before[1]).steps)
    IN  trace[k].ret # "kEndByPredicate" =>
          /\ (trace[k].ret = "kEndOfRedpath") = (before[2] = nsteps - 1)
          /\ (before[2] < nsteps - 1 =>
                trace[k].ret = "kContinue" /\ after[2] = before[2] + 1)

\* Whether view m is the i-th entry under the node name of view v.
IsUnder(m, v, name) ==
  /\ Len(m) = Len(v) + 1
  /\ SubSeq(m, 1, Len(v)) = v
  /\ m[Len(m)].n = name

\* The distinct next node names of a RunRecursive event.
NamesOf(e) == {e.name[k] : k \in 1..Len(e.name)}

\* The lookups of a node name on a view.
Lookups(v, name) ==
  {l \in Events("Lookup") : trace[l].view = v /\ trace[l].name = name}

\* C3: every RunRecursive call looks up, on its view, each distinct next
\* node name of the handles it was given exactly once, whatever the number
\* of handles that share the name, and nothing else; and a view is the
\* subject of at most one RunRecursive call.
C3_OneLookupPerNodeName ==
  pc = "done" =>
    /\ \A r \in Events("RunRecursive") :
         /\ \A n \in NamesOf(trace[r]) :
              Cardinality(Lookups(trace[r].view, n)) = 1
         /\ \A r2 \in Events("RunRecursive") :
              trace[r2].view = trace[r].view => r2 = r
    /\ \A l \in Events("Lookup") :
         \E r \in Events("RunRecursive") :
            /\ trace[r].view = trace[l].view
            /\ trace[l].name \in NamesOf(trace[r])

\* A Run in which a RunRecursive call below the root was given two handles
\* with the same next node name.
C3_Witness ==
  /\ pc = "done"
  /\ \E r \in Events("RunRecursive") :
       /\ trace[r].d >= 1
       /\ Len(trace[r].name) >= 2
       /\ trace[r].name[1] = trace[r].name[2]
       /\ Lookups(trace[r].view, trace[r].name[1]) # {}

\* The calls of QualifyEachSubquery on the members found by lookup l.
MemberQualifies(l) ==
  {q \in Events("Qualify") :
     /\ IsUnder(trace[q].view, trace[l].view, trace[l].name)
     /\ trace[q].view[Len(trace[q].view)].i >= 1}

\* C4: every member of a collection is qualified with the handles of the
\* group as the lookup found them: same handles, same cursors, whatever the
\* members before it did to their copies.
C4_SiblingsStartFromSameCursors ==
  \A l \in Events("Lookup") :
    \A q \in MemberQualifies(l) : trace[q].hs = trace[l].hs

\* A Run in which a handle advanced its cursor on the first member of a
\* collection and the second member was qualified after it.
C4_Witness ==
  /\ pc = "done"
  /\ \E l \in Events("Lookup"), f \in Events("Filter") :
       \E q \in MemberQualifies(l) :
          /\ IsUnder(trace[f].view, trace[l].view, trace[l].name)
          /\ trace[f].view[Len(trace[f].view)].i = 1
          /\ trace[f].ret = "kContinue"
          /\ trace[q].view[Len(trace[q].view)].i = 2
          /\ f < q

\* The place of the first c in a segment, from 1, and 0 when it has none.
FirstOf(seg, c) ==
  IF \E i \in 1..Len(seg) : seg[i] = c
    THEN CHOOSE i \in 1..Len(seg) : seg[i] = c /\ \A j \in 1..(i - 1) : seg[j] # c
    ELSE 0

HasBothBrackets(seg) == FirstOf(seg, "[") > 0 /\ FirstOf(seg, "]") > 0

\* A segment whose first ']' comes before its first '['.
BracketsReversed(seg) ==
  HasBothBrackets(seg) /\ FirstOf(seg, "]") < FirstOf(seg, "[")

\* The text between the first '[' and the first ']' that follows it; there
\* is none when ']' does not follow '['.
TextBetween(seg) ==
  IF HasBothBrackets(seg) /\ FirstOf(seg, "[") < FirstOf(seg, "]")
    THEN SubSeq(seg, FirstOf(seg, "[") + 1, FirstOf(seg, "]") - 1)
    ELSE <<>>

\* The text before the first '['.
NameBefore(seg) == SubSeq(seg, 1, FirstOf(seg, "[") - 1)

\* The non-empty segments of a redpath.
Segments(redpath) == StrSplitSkipEmpty(redpath)

SelectsAll(seg) == HasBothBrackets(seg) /\ TextBetween(seg) = <<"*">>

\* Whether the planner took the ix-th subquery into its active set.
IsActive(ix) ==
  \E k \in 1..Len(planner.subquery_handles) : planner.subquery_handles[k].ix = ix

\* C5: the constructor marks a handle valid exactly when every non-empty
\* segment of the redpath has both brackets with exactly "*" between the
\* first '[' and the first ']'; the steps of a valid handle are the node
\* names of the segments, in order, each with the select-all predicate.
C5_ValidIffEverySegmentSelectsAll ==
  pc = "ready" =>
    \A k \in 1..Len(query.subquery) :
      LET segs == Segments(query.subquery[k].redpath)
          h    == SubqueryHandle(query.subquery[k])
      IN  /\ h.valid = (\A i \in 1..Len(segs) : SelectsAll(segs[i]))
          /\ IsActive(k) = h.valid
          /\ h.valid =>
               h.steps = [i \in 1..Len(segs) |->
                            [name |-> NameBefore(segs[i]), pred |-> "select_all"]]

\* C6: a subquery with a segment whose first ']' comes before its first '['
\* is rejected: its handle is invalid and the planner does not take it.
C6_ReversedBracketsRejected ==
  pc = "ready" =>
    \A k \in 1..Len(query.subquery) :
      LET segs == Segments(query.subquery[k].redpath)
      IN  (\E i \in 1..Len(segs) : BracketsReversed(segs[i])) =>
            ~SubqueryHandle(query.subquery[k]).valid /\ ~IsActive(k)

\* A segment without brackets, or with a predicate other than "*".
FailsToCompile(seg) ==
  \/ ~HasBothBrackets(seg)
  \/ ~BracketsReversed(seg) /\ TextBetween(seg) # <<"*">>

\* A subquery one of whose segments fails to compile.
FailsCompilation(sq) ==
  \E i \in 1..Len(Segments(sq.redpath)) : FailsToCompile(Segments(sq.redpath)[i])

\* The sequence without its k-th element.
Without(seq, k) == SubSeq(seq, 1, k - 1) \o SubSeq(seq, k + 1, Len(seq))

\* What a Run of planner p on tree t puts into a fresh result, with the
\* clock and the undefined reads of the last Run.
ResultOf(t, p) ==
  RunPlanner(t, p, EmptyResult, result.start_timestamp, result.end_timestamp,
             undefined).result

\* C7: a subquery that fails compilation is not in the planner's active
\* set, and Run's result is the result of the query without that subquery:
\* same query ids, same buckets, same records in the same order.
C7_CompileFailureIsolated ==
  pc = "done" =>
    \A k \in 1..Len(query.subquery) :
      FailsCompilation(query.subquery[k]) =>
        /\ ~IsActive(k)
        /\ result = ResultOf(tree,
             QueryPlannerNew([query EXCEPT !.subquery = Without(@, k)],
                             NoUndefined))

\* A Run of a query with a subquery that fails compilation and another
\* that produced a record.
C7_Witness ==
  /\ pc = "done"
  /\ \E k \in 1..Len(query.subquery) : FailsCompilation(query.subquery[k])
  /\ \E id \in SubqueryIds : Bucket(result, id) # <<>>

\* The tree with property P1 on every resource.
WithEveryProperty(t) ==
  IF t.attr = "noP1" THEN [t EXCEPT !.odd = 0, !.attr = "scalar"] ELSE t

\* A trace without the outcomes of its Normalize calls.
Calls(tr) ==
  [k \in 1..Len(tr) |->
     IF tr[k].op = "Normalize" THEN [tr[k] EXCEPT !.ret = ""] ELSE tr[k]]

\* The resources of the records of a bucket, in order.
Views(records) == [k \in 1..Len(records) |-> records[k].view]

\* C8: a Normalize that fails appends no record for its resource and
\* subquery, and changes nothing else: the Run makes the same calls in the
\* same order as on the tree where these normalizations succeed, and every
\* bucket holds the same records but those of the failed normalizations.
C8_NormalizeFailureLocal ==
  pc = "done" =>
    /\ \A n \in Events("Normalize") :
         trace[n].ret = "error" =>
           \A k \in 1..Len(Bucket(result, trace[n].name)) :
              Bucket(result, trace[n].name)[k].view # trace[n].view
    /\ tree.attr = "noP1" =>
         LET ref == RunPlanner(WithEveryProperty(tree), planner, EmptyResult,
                               result.start_timestamp, result.end_timestamp,
                               undefined)
         IN  /\ Calls(trace) = Calls(ref.trace)
             /\ \A id \in SubqueryIds :
                  Views(Bucket(result, id)) =
                    Views(SelectSeq(Bucket(ref.result, id),
                            LAMBDA r : Normalize(tree,
                                         [path |-> r.view, kind |-> "object"],
                                         Subquery(id, <<>>)).ok))

\* A Run in which a Normalize failed and a later one succeeded.
C8_Witness ==
  /\ pc = "done"
  /\ \E n, m \in Events("Normalize") :
       n < m /\ trace[n].ret = "error" /\ trace[m].ret = "ok"

\* Whether view m lies under the node name of view v.
IsBelow(m, v, name) ==
  /\ Len(m) > Len(v)
  /\ SubSeq(m, 1, Len(v)) = v
  /\ m[Len(v) + 1].n = name

\* The lookups that found no object.
Skipped == {l \in Events("Lookup") : trace[l].ret \notin {"object", "collection"}}

\* The handles a RunRecursive event shows, as they were.
HandlesOf(e) ==
  [k \in 1..Len(e.hs) |-> [HandleOf(e.hs[k][1]) EXCEPT !.iter = e.hs[k][2]]]

\* The records RunRecursive puts into a fresh result, called on the view of
\* event e with the given handles.
RecordsOf(e, handles) ==
  RunRecursive(tree, [path |-> e.view, kind |-> e.ret], handles,
               [result |-> EmptyResult, trace |-> <<>>, crashed |-> FALSE],
               undefined, e.d).result

\* C9: a lookup that yields no object is followed by no call on anything
\* under that node of the view; the Run ends (only a read through a cursor
\* with no step can kill it); and every RunRecursive call yields the records
\* it yields without the handles of the skipped groups.
C9_SkippedGroupHasNoEffect ==
  /\ pc = "crashed" =>
       \E k \in 1..Len(query.subquery) :
          LET h == SubqueryHandle(query.subquery[k])
          IN  h.valid /\ h.steps = <<>>
  /\ pc = "done" =>
       /\ \A l \in Skipped : \A k \in 1..Len(trace) :
            ~IsBelow(trace[k].view, trace[l].view, trace[l].name)
       /\ \A r \in Events("RunRecursive") :
            LET gone == {trace[l].name : l \in {x \in Skipped :
                                                  trace[x].view = trace[r].view}}
                all  == HandlesOf(trace[r])
            IN  gone # {} =>
                  RecordsOf(trace[r], all) =
                    RecordsOf(trace[r],
                      SelectSeq(all, LAMBDA h : GroupKey(h, undefined) \notin gone))

\* A Run in which, on one view, the group of one node name was skipped and
\* a handle of another node name produced a record.
C9_Witness ==
  /\ pc = "done"
  /\ \E l \in Skipped, n \in Events("Normalize") :
       /\ trace[n].ret = "ok"
       /\ Len(trace[n].view) > Len(trace[l].view)
       /\ SubSeq(trace[n].view, 1, Len(trace[l].view)) = trace[l].view
       /\ trace[l].view # <<>>

\* The member indexes of the calls of QualifyEachSubquery on what lookup l
\* found, in the order of the calls (0: the resource itself).
QualifiedUnder(l) ==
  LET qs == SelectSeq(trace, LAMBDA e : e.op = "Qualify"
                        /\ IsUnder(e.view, trace[l].view, trace[l].name))
  IN  [k \in 1..Len(qs) |-> qs[k].view[Len(qs[k].view)].i]

MemberIndexes == [k \in 1..tree.nmem |-> k]

NonObjectMembers ==
  {trace[q].view : q \in {x \in Events("Qualify") : trace[x].ret = "none"}}

\* C11: a member of a collection that is no object is skipped: no handle is
\* evaluated against it (no FilterNodeSet), Normalize is not invoked on it,
\* no record is appended for it, and the members after it are visited.
C11_NonObjectMemberSkipped ==
  pc = "done" =>
    /\ \A k \in 1..Len(trace) :
         trace[k].op \in {"Filter", "Normalize"} =>
           trace[k].view \notin NonObjectMembers
    /\ \A id \in SubqueryIds : \A k \in 1..Len(Bucket(result, id)) :
         Bucket(result, id)[k].view \notin NonObjectMembers
    /\ \A l \in Events("Lookup") :
         trace[l].ret = "collection" => Len(QualifiedUnder(l)) = tree.nmem

\* The subqueries of the query all compile, to one step or more.
AllCompile ==
  \A k \in 1..Len(query.subquery) :
     LET h == SubqueryHandle(query.subquery[k])
     IN  h.valid /\ h.steps # <<>>

\* The run looked up collections only, and every one of them was empty.
OnlyEmptyCollections ==
  /\ tree.nmem = 0
  /\ Events("Lookup") # {}
  /\ \A l \in Events("Lookup") : trace[l].ret = "collection"

\* C12: after a Run of a query of two valid subqueries on a tree whose
\* targeted collection has no members, subquery_output_by_id has an entry
\* for the id of each of the two subqueries, and each entry holds no record.
C12_EmptyBucketsExist ==
  (pc = "done" /\ Len(query.subquery) = 2 /\ AllCompile /\ OnlyEmptyCollections) =>
    \A k \in 1..2 :
      /\ query.subquery[k].subquery_id \in DOMAIN result.subquery_output_by_id
      /\ Bucket(result, query.subquery[k].subquery_id) = <<>>

\* C13: a query none of whose subqueries compiles (one with no subquery
\* included) constructs and runs; Run looks up no child of the root, and the
\* result holds the query id in query_ids and no entry in
\* subquery_output_by_id.
C13_EmptyQuery ==
  (\A k \in 1..Len(query.subquery) : FailsCompilation(query.subquery[k])) =>
    /\ pc # "crashed"
    /\ pc = "done" =>
         /\ Events("Lookup") = {}
         /\ result.query_ids = <<query.query_id>>
         /\ DOMAIN result.subquery_output_by_id = {}

\* A Run of a query with subqueries, none of which compiles.
C13_Witness ==
  /\ pc = "done"
  /\ query.subquery # <<>>
  /\ \A k \in 1..Len(query.subquery) : FailsCompilation(query.subquery[k])

\* The result of a Run of the query's k-th subquery alone.
Alone(k) ==
  ResultOf(tree, QueryPlannerNew([query EXCEPT !.subquery = <<@[k]>>],
                                 NoUndefined))

\* The records the subqueries of an id, from the k-th on, produce each alone.
RECURSIVE SumAlone(_, _)
SumAlone(id, k) ==
  IF k > Len(query.subquery) THEN 0
  ELSE (IF query.subquery[k].subquery_id = id
          THEN Len(Bucket(Alone(k), id)) ELSE 0)
         + SumAlone(id, k + 1)

\* C14: the records of all subqueries of one subquery_id are in the one
\* bucket of that id, which holds as many records as these subqueries
\* produce each alone, taken together; a query of the same subquery twice
\* has twice the records of the query of the one subquery.
C14_AliasedIdsShareBucket ==
  pc = "done" =>
    /\ DOMAIN result.subquery_output_by_id \subseteq
         {query.subquery[k].subquery_id : k \in 1..Len(query.subquery)}
    /\ \A id \in SubqueryIds : Len(Bucket(result, id)) = SumAlone(id, 1)
    /\ (Len(query.subquery) = 2 /\ query.subquery[1] = query.subquery[2]) =>
         Len(Bucket(result, query.subquery[1].subquery_id)) =
           2 * Len(Bucket(Alone(1), query.subquery[1].subquery_id))

\* A Run of a query of two subqueries of one id, the same one twice or two
\* different ones, each of which produces records alone.
C14_Witness ==
  /\ pc = "done"
  /\ Len(query.subquery) = 2
  /\ query.subquery[1].subquery_id = query.subquery[2].subquery_id
  /\ Bucket(Alone(1), query.subquery[1].subquery_id) # <<>>
  /\ Bucket(Alone(2), query.subquery[1].subquery_id) # <<>>

\* What a second Run of the planner, as the first left it, may return in a
\* fresh result, the clock having advanced, where it returns.
SecondRuns ==
  {RunPlanner(tree, planner, EmptyResult, clock + 1, clock + 2, ub) :
     ub \in {u \in UndefinedOutcomes :
                ~u.crash /\ (u = NoUndefined \/ HasStepless(planner))}}

OnAStep(shown) == 0 <= shown[2] /\ shown[2] < Len(HandleOf(shown[1]).steps)

\* C18: at every entry to QualifyEachSubquery and to FilterNodeSet, the
\* cursor c of every handle the planner took as valid satisfies
\* 0 <= c < number of compiled steps.
C18_CursorInRange ==
  /\ \A q \in Events("Qualify") :
       \A k \in 1..Len(trace[q].hs) : OnAStep(trace[q].hs[k])
  /\ \A f \in Events("Filter") : OnAStep(trace[f].hs[1])

\* C19: FilterNodeSet never leaves a cursor beyond the last step of its
\* handle: it advances the cursor only where a step follows the current one.
C19_NeverPastLastStep ==
  \A f \in Events("Filter") :
    LET before == trace[f].hs[1]
        after  == trace[f].hs[2]
        nsteps == Len(HandleOf(before[1]).steps)
    IN  after[2] # before[2] =>
          after[2] = before[2] + 1 /\ after[2] <= nsteps - 1

\* Whether view m lies under view v.
IsInside(m, v) == Len(m) > Len(v) /\ SubSeq(m, 1, Len(v)) = v

\* Whether the event shows the handle of the ix-th subquery.
Shows(e, ix) == \E k \in 1..Len(e.hs) : e.hs[k][1] = ix

\* C20: a handle for which FilterNodeSet returned kEndOfRedpath on a view
\* is normalized on that view, at once, and is not recursed: it is not among
\* the handles of RunRecursive on that view, and under that view there is no
\* lookup, no call and no Normalize for it.
C20_TerminalNotRecursed ==
  \A f \in Events("Filter") :
    trace[f].ret = "kEndOfRedpath" =>
      LET v  == trace[f].view
          ix == trace[f].hs[1][1]
      IN  /\ f < Len(trace)
          /\ trace[f + 1].op = "Normalize"
          /\ trace[f + 1].view = v
          /\ trace[f + 1].hs = <<trace[f].hs[1]>>
          /\ \A k \in 1..Len(trace) :
               \/ ~Shows(trace[k], ix)
               \/ /\ trace[k].view = v
                  /\ trace[k].op \in {"Qualify", "Filter", "Normalize"}
               \/ /\ trace[k].view # v
                  /\ ~IsInside(trace[k].view, v)

\* A Run in which one handle ended its redpath on a view and another went
\* on from that view to a record below it.
C20_Witness ==
  /\ pc = "done"
  /\ \E f \in Events("Filter"), n \in Events("Normalize") :
       /\ trace[f].ret = "kEndOfRedpath"
       /\ trace[n].ret = "ok"
       /\ IsInside(trace[n].view, trace[f].view)

\* The events of one kind on one view, in the order of the trace.
EventsOn(op, v) == SelectSeq(trace, LAMBDA e : e.op = op /\ e.view = v)

\* How many events of the sequence show the handle of the ix-th subquery.
Showing(events, ix) ==
  Cardinality({k \in 1..Len(events) : Shows(events[k], ix)})

\* C21: every handle that enters QualifyEachSubquery on a view has exactly
\* one of three outcomes there: the predicate rejects and nothing follows;
\* the redpath ends, Normalize is called and the handle is not handed on;
\* or the cursor advances and the handle is handed to RunRecursive on the
\* view, with no Normalize.  No handle has two of them and none has none.
C21_ExactlyOneOutcome ==
  pc = "done" =>
    \A q \in Events("Qualify") :
      LET v       == trace[q].view
          filters == EventsOn("Filter", v)
          norms   == EventsOn("Normalize", v)
          runs    == EventsOn("RunRecursive", v)
      IN  /\ Len(runs) <= 1
          /\ \A k \in 1..Len(trace[q].hs) :
               LET ix   == trace[q].hs[k][1]
                   mine == SelectSeq(filters, LAMBDA e : e.hs[1] = trace[q].hs[k])
               IN  /\ Len(mine) = 1
                   /\ Showing(filters, ix) = 1
                   /\ mine[1].ret \in {"kEndByPredicate", "kEndOfRedpath", "kContinue"}
                   /\ Showing(norms, ix) = IF mine[1].ret = "kEndOfRedpath" THEN 1 ELSE 0
                   /\ Showing(runs, ix) = IF mine[1].ret = "kContinue" THEN 1 ELSE 0
                   /\ mine[1].ret = "kContinue" =>
                        mine[1].hs[2] = <<ix, trace[q].hs[k][2] + 1>>
                   /\ mine[1].ret # "kContinue" => mine[1].hs[2] = mine[1].hs[1]

\* A Run in which, on one view, one handle ended its redpath and another
\* continued.
C21_Witness ==
  /\ pc = "done"
  /\ \E f, g \in Events("Filter") :
       /\ trace[f].view = trace[g].view
       /\ trace[f].ret = "kEndOfRedpath"
       /\ trace[g].ret = "kContinue"

\* View v comes before view w in the traversal: where they part, they are
\* members of one collection, v an earlier one than w.
Precedes(v, w) ==
  \E p \in 1..Len(v) :
    /\ p <= Len(w)
    /\ SubSeq(v, 1, p - 1) = SubSeq(w, 1, p - 1)
    /\ v[p].n = w[p].n
    /\ v[p].i < w[p].i

\* The calls of Normalize for a subquery id that succeeded, in the order of
\* the trace.
Emissions(id) ==
  SelectSeq(trace, LAMBDA e : e.op = "Normalize" /\ e.ret = "ok" /\ e.name = id)

\* C22: a bucket holds its records in the order they were produced, and the
\* records of one subquery are produced in traversal order: the record of an
\* earlier member of a collection, and of everything below it, comes before
\* the record of a later member; and a Run over the same tree and subqueries
\* gives the same order again.
C22_RecordsInTraversalOrder ==
  pc = "done" =>
    /\ \A id \in SubqueryIds :
         Views(Bucket(result, id)) =
           [k \in 1..Len(Emissions(id)) |-> Emissions(id)[k].view]
    /\ \A n, m \in Events("Normalize") :
         (n < m /\ trace[n].hs[1][1] = trace[m].hs[1][1]) =>
           Precedes(trace[n].view, trace[m].view)
    /\ (\E id \in SubqueryIds : Len(Bucket(result, id)) >= 2) =>
         ResultOf(tree, planner).subquery_output_by_id =
           result.subquery_output_by_id

\* A Run over a collection of collections, whose bucket has the records of
\* the first member and of the members below it before those of the second.
C22_Witness ==
  /\ pc = "done"
  /\ \E id \in SubqueryIds :
       LET b == Bucket(result, id)
       IN  /\ Len(b) >= 4
           /\ \E k \in 1..(Len(b) - 1) :
                /\ Len(b[k].view) = 2
                /\ b[k].view[1].i = 1 /\ b[k].view[2].i >= 2
                /\ b[k + 1].view[1].i = 2 /\ b[k + 1].view[2].i = 1

\* The handles of a RunRecursive event whose next node is name, from the
\* k-th on, in the order of the event.
RECURSIVE WithNextNode(_, _, _)
WithNextNode(e, name, k) ==
  IF k > Len(e.hs) THEN <<>>
  ELSE (IF e.name[k] = name THEN <<e.hs[k]>> ELSE <<>>)
         \o WithNextNode(e, name, k + 1)

\* C23: the order of the handles is kept all along.  The lookups of a
\* RunRecursive call are for the next nodes of its handles, one per name,
\* and the group of a name is the handles with that next node in the order
\* of the call, so every handle is in one group; QualifyEachSubquery filters
\* the handles in the order it got them, normalizes those that end in that
\* order, and hands on those that continue in that order.
C23_HandleOrderKept ==
  pc = "done" =>
    /\ \A r \in Events("RunRecursive") :
         LET lookups == EventsOn("Lookup", trace[r].view)
         IN  /\ {lookups[k].name : k \in 1..Len(lookups)} = NamesOf(trace[r])
             /\ \A k \in 1..Len(lookups) :
                  lookups[k].hs = WithNextNode(trace[r], lookups[k].name, 1)
    /\ \A q \in Events("Qualify") :
         LET v       == trace[q].view
             filters == EventsOn("Filter", v)
             ended   == SelectSeq(filters, LAMBDA e : e.ret = "kEndOfRedpath")
             kept    == SelectSeq(filters, LAMBDA e : e.ret = "kContinue")
             norms   == EventsOn("Normalize", v)
             runs    == EventsOn("RunRecursive", v)
         IN  /\ [k \in 1..Len(filters) |-> filters[k].hs[1]] = trace[q].hs
             /\ [k \in 1..Len(norms) |-> norms[k].hs[1]] =
                  [k \in 1..Len(ended) |-> ended[k].hs[1]]
             /\ kept # <<>> =>
                  /\ Len(runs) = 1
                  /\ runs[1].hs = [k \in 1..Len(kept) |-> kept[k].hs[2]]

\* A Run in which a group of two handles was qualified on a view and both
\* went on from it, in their order.
C23_Witness ==
  /\ pc = "done"
  /\ \E r \in Events("RunRecursive") :
       /\ trace[r].view # <<>>
       /\ Len(trace[r].hs) = 2
       /\ trace[r].hs[1][1] < trace[r].hs[2][1]

\* Sequence s is the beginning of sequence t.
IsPrefix(s, t) == Len(s) <= Len(t) /\ SubSeq(t, 1, Len(s)) = s

\* C24: Run only appends to the result it is handed.  The query ids and the
\* records that were there before are there after, unchanged and in their
\* places, and the bucket of an id has grown by the records of that id the
\* Run has emitted, in their order, and by nothing else: an emission changes
\* the bucket of its subquery id only.
C24_RunOnlyAppends ==
  [][ pc = "ready" =>
        /\ IsPrefix(result.query_ids, result'.query_ids)
        /\ DOMAIN result.subquery_output_by_id
             \subseteq DOMAIN result'.subquery_output_by_id
        /\ \A id \in SubqueryIds :
             /\ IsPrefix(Bucket(result, id), Bucket(result', id))
             /\ Views(Bucket(result', id)) =
                  Views(Bucket(result, id))
                    \o [k \in 1..Len(Emissions(id)') |-> Emissions(id)'[k].view]
    ]_vars

\* A Run has returned into a result of an earlier run: the query ids of
\* that run are followed by one more, the bucket of one id by new records,
\* and the bucket of the other id is as it was.
C24_Witness ==
  /\ pc = "done"
  /\ result.query_ids = <<"Q1", "Q0", "Q1">>
  /\ Len(Bucket(result, "S1")) >= 2
  /\ Bucket(result, "S1")[1] = PriorRecord
  /\ Bucket(result, "S2") = <<PriorRecord, PriorRecord>>

\* The largest number of steps of a handle of the planner.
RECURSIVE MostSteps(_)
MostSteps(handles) ==
  IF handles = <<>> THEN 0
  ELSE LET rest == MostSteps(Tail(handles))
       IN  IF Len(Head(handles).steps) > rest THEN Len(Head(handles).steps)
           ELSE rest

\* C25: Run always returns, also on a tree in which the node names repeat
\* on every level: the depth of a RunRecursive call (0 for the call Run
\* makes) never exceeds the largest number of steps of a handle of the
\* planner, every handle of a nested call having its cursor advanced by one
\* per level.
C25_RunTerminates ==
  /\ ~(pc = "crashed" /\ trace # <<>>)
  /\ \A r \in Events("RunRecursive") :
       /\ trace[r].d <= MostSteps(planner.subquery_handles)
       /\ \A k \in 1..Len(trace[r].hs) : trace[r].hs[k][2] = trace[r].d

\* The redpath without its i-th character.
Dropped(redpath, i) == SubSeq(redpath, 1, i - 1) \o SubSeq(redpath, i + 1, Len(redpath))

\* The i-th character is a '/' that bounds an empty segment: the first
\* character, the last, or one with a '/' after it.
BoundsEmptySegment(redpath, i) ==
  /\ redpath[i] = "/"
  /\ (i = 1 \/ i = Len(redpath) \/ redpath[i + 1] = "/")

\* The characters a..b of the redpath are a segment: a longest stretch with
\* no '/' in it.
IsSegment(redpath, a, b) ==
  /\ a <= b
  /\ \A i \in a..b : redpath[i] # "/"
  /\ (a = 1 \/ redpath[a - 1] = "/")
  /\ (b = Len(redpath) \/ redpath[b + 1] = "/")

\* C26: empty segments are discarded, so a '/' that bounds one can be left
\* out without a change to what the redpath compiles to; and for every
\* segment with both brackets the node name is the characters before the
\* first '[' and the predicate the characters strictly between the first
\* '[' and the first ']'; the steps of a valid handle have the node names of
\* the segments, in order.
C26_StepParsing ==
  \A k \in 1..Len(query.subquery) :
    LET redpath == query.subquery[k].redpath
        h       == SubqueryHandle(query.subquery[k])
    IN  /\ \A i \in 1..Len(redpath) :
             BoundsEmptySegment(redpath, i) =>
               LET g == SubqueryHandle(Subquery(query.subquery[k].subquery_id,
                                                Dropped(redpath, i)))
               IN  g.valid = h.valid /\ g.steps = h.steps
        /\ \A a, b \in 1..Len(redpath) :
             (IsSegment(redpath, a, b) /\ HasBothBrackets(SubSeq(redpath, a, b))) =>
               LET seg == SubSeq(redpath, a, b)
                   np  == GetNodeAndPredicate(seg)
               IN  /\ np.ok
                   /\ np.node = NameBefore(seg)
                   /\ np.predicate = TextBetween(seg)
        /\ h.valid =>
             /\ Len(h.steps) = Len(Segments(redpath))
             /\ \A i \in 1..Len(h.steps) :
                  h.steps[i].name = NameBefore(Segments(redpath)[i])


(***************************************************************************)
(* The fake clock.                                                         *)
(***************************************************************************)
\* The durations the calls cs told the clock to advance by: those of
\* AdvanceTime and SleepFor, and of Sleep when no sleep function was given.
RECURSIVE Instructed(_, _)
Instructed(cs, sleep) ==
  IF cs = <<>> THEN 0
  ELSE LET c == cs[Len(cs)]
           rest == Instructed(SubSeq(cs, 1, Len(cs) - 1), sleep)
       IN  IF c.op \in {"AdvanceTime", "SleepFor"} \/ (c.op = "Sleep" /\ ~sleep)
             THEN rest + c.d ELSE rest

\* The arguments of the Sleep calls among cs, in order.
RECURSIVE SleepArguments(_)
SleepArguments(cs) ==
  IF cs = <<>> THEN <<>>
  ELSE LET rest == SleepArguments(SubSeq(cs, 1, Len(cs) - 1))
       IN  IF cs[Len(cs)].op = "Sleep" THEN Append(rest, cs[Len(cs)].d)
                                       ELSE rest

\* C27: the fake clock advances only when told to.  After any calls, Now()
\* is the time given at construction plus the durations passed to
\* AdvanceTime and SleepFor, and to Sleep when no sleep function was
\* supplied; every Now() returned that sum of the calls before it and left
\* the time alone; with a sleep function supplied, every Sleep(d) called it
\* with d and left the time alone, and without one it is never called.
C27_AdvancesOnlyWhenTold ==
  calls # <<>> =>
    /\ Now(fake_clock) = calls[1].d + Instructed(calls, fake_clock.sleep_)
    /\ \A k \in 1..Len(calls) :
         /\ calls[k].before =
              calls[1].d + Instructed(SubSeq(calls, 1, k - 1), fake_clock.sleep_)
         /\ calls[k].op = "Now" => calls[k].after = calls[k].before
         /\ (calls[k].op = "Sleep" /\ fake_clock.sleep_) =>
              calls[k].after = calls[k].before
    /\ sleep_calls = IF fake_clock.sleep_ THEN SleepArguments(calls) ELSE <<>>

\* A clock with a sleep function that slept, was advanced and was then read.
C27_Witness ==
  /\ fake_clock.sleep_
  /\ \E i, j, k \in 1..Len(calls) :
       /\ i < k /\ j < k
       /\ calls[i].op = "Sleep" /\ calls[i].d > 0
       /\ calls[j].op \in {"AdvanceTime", "SleepFor"} /\ calls[j].d > 0
       /\ calls[k].op = "Now"

\* C28: AdvanceTime cannot move time back.  Whatever the duration, Now()
\* after AdvanceTime(duration) is at least what it was before the call.
C28_AdvanceTimeNeverBack ==
  \A k \in 1..Len(calls) :
    calls[k].op = "AdvanceTime" => calls[k].after >= calls[k].before

(***************************************************************************)
(* The cache of the RedfishInterface.                                      *)
(***************************************************************************)
\* The time since the handler of uri last ran, by the clock.
Since(uri) == Now(fake_clock) - server[uri].at

\* What the claims say of a get of uri through the cache, whichever call
\* makes it: the first one is one GET; while less than the maximum age has
\* passed since the GET, none, and the payload is the one the GET fetched;
\* once more than the maximum age has passed, one GET again.
ThroughTheCache(uri) ==
  LET n == server[uri].called_count
  IN  /\ n = 0 => server'[uri].called_count = 1 /\ last'.gets = 1
      /\ (n > 0 /\ Since(uri) < MaxAge) =>
           /\ server'[uri].called_count = n
           /\ last'.gets = 0
           /\ last'.payload = server[uri].served
      /\ (n > 0 /\ Since(uri) > MaxAge) =>
           server'[uri].called_count = n + 1 /\ last'.gets = 1
      /\ last'.payload = IF last'.gets = 1 THEN Payload(server, uri)
                                           ELSE server[uri].served
      /\ \A other \in Uris \ {uri} : server'[other] = server[other]

\* C29: freshness by time, with a maximum age of one minute.  The first
\* CachedGetUri of a URI issues exactly one GET; each later one made while
\* less than the maximum age has passed since the fetch issues none and
\* returns the payload fetched; the first one made after more than the
\* maximum age has passed issues exactly one new GET.
C29_FreshForMaxAge ==
  [][\A uri \in Uris : CachedGetUri(uri) => ThroughTheCache(uri)]_vars

\* A URI was fetched, fetched again once its entry had expired, and is now
\* served from the cache although the resource has changed on the server.
C29_Witness ==
  /\ last.op = "CachedGetUri"
  /\ last.gets = 0
  /\ server[last.uri].called_count = 2
  /\ Since(last.uri) > 0
  /\ last.payload # Payload(server, last.uri)

\* C30: navigation shares the cache with direct gets.  copy["Reference"]
\* gets the URI referred to through the cache CachedGetUri uses: once that
\* URI has been fetched, by either call, navigating to it from any copy of
\* the parent issues no GET while its entry is fresh, nor does CachedGetUri
\* of it after a fetch made by navigation, and once the entry has expired
\* navigation issues exactly one new GET.
C30_NavigationSharesCache ==
  [][/\ \A copy \in held : Navigate(copy) => ThroughTheCache(Reference(copy))
     /\ \A uri \in Uris :
          (CachedGetUri(uri) /\ server[uri].by = "operator[]"
             /\ Since(uri) < MaxAge) =>
            server'[uri].called_count = server[uri].called_count
    ]_vars

\* The caller holds two copies of the parent, the child was fetched by
\* navigation and then got directly from the cache, and after its entry
\* expired navigation has fetched it again.
C30_Witness ==
  /\ Cardinality(held) = 2
  /\ last.op = "operator[]"
  /\ last.gets = 1
  /\ server[ChildUri].called_count = 2
  /\ server[ParentUri].called_count = 2

(***************************************************************************)
(* Objects and their freshness.                                            *)
(***************************************************************************)
\* The GETs the handler of the resource has answered.
CalledCount == server[ParentUri].called_count

\* A get makes an object that is fresh exactly when the get went to the
\* backend, and UncachedGetUri always goes there, once.
GetsMakeFreshObjects ==
  /\ CachedGetObject =>
       /\ last'.object.fresh = (CalledCount' = CalledCount + 1)
       /\ ~last'.object.fresh => CalledCount' = CalledCount
  /\ UncachedGetObject =>
       /\ CalledCount' = CalledCount + 1
       /\ last'.object.fresh

\* C31 as stated: EnsureFreshPayload never fetches twice.  On an object
\* whose payload came from the backend (a miss of CachedGetUri, or any
\* UncachedGetUri, which always issues one GET) it issues no GET; on an
\* object served from the cache it issues exactly one GET; either way it
\* returns an object with the same content.
C31_NoDoubleFetch_Claimed ==
  [][/\ GetsMakeFreshObjects
     /\ \A obj \in held :
          EnsureFresh(obj) =>
            /\ obj.fresh => CalledCount' = CalledCount
            /\ ~obj.fresh => CalledCount' = CalledCount + 1
            /\ last'.object # NoObject
            /\ last'.object.payload = obj.payload
    ]_vars

\* C31 as the interface has it: on an object whose payload came from the
\* backend EnsureFreshPayload issues no GET and returns an object with the
\* same content; on an object served from the cache whose payload has an
\* @odata.id it issues exactly one GET, of the URI the @odata.id names, and
\* returns a fresh object with what the backend replied, which is the same
\* content when the resource has not changed since the payload was fetched.
C31_NoDoubleFetch ==
  [][/\ GetsMakeFreshObjects
     /\ \A obj \in held :
          EnsureFresh(obj) =>
            /\ obj.fresh =>
                 /\ CalledCount' = CalledCount
                 /\ last'.object = obj
            /\ (~obj.fresh /\ obj.payload.odata_id # "") =>
                 /\ CalledCount' = CalledCount + 1
                 /\ last'.object.fresh
                 /\ last'.object.payload = Payload(server, obj.payload.odata_id)
                 /\ server[ParentUri].version = obj.payload.version =>
                      last'.object.payload = obj.payload
    ]_vars

\* An object served from the cache was refreshed with one GET, the second
\* the backend saw, after the resource had changed; the caller also holds
\* an object that came from the backend.
C31_Witness ==
  /\ last.op = "EnsureFreshPayload"
  /\ ~last.of.fresh
  /\ last.gets = 1
  /\ last.object.payload # last.of.payload
  /\ server[ParentUri].by = "EnsureFreshPayload"
  /\ CalledCount = 2
  /\ \E obj \in held : obj.fresh /\ obj.payload = last.of.payload

\* C32: EnsureFreshPayload on an object that was served from the cache and
\* whose payload has no @odata.id fails: it returns no object, neither the
\* stale one nor one fetched anew, and issues no GET.
C32_NoOdataIdNoObject ==
  [][\A obj \in held :
       (EnsureFresh(obj) /\ ~obj.fresh /\ obj.payload.odata_id = "") =>
         /\ last'.object = NoObject
         /\ CalledCount' = CalledCount
         /\ held' = held
    ]_vars

\* An object out of the cache, without @odata.id, was asked for a fresh
\* payload and there was none.
C32_Witness ==
  /\ last.op = "EnsureFreshPayload"
  /\ ~last.of.fresh
  /\ last.of.payload.odata_id = ""
  /\ last.of.payload.uri = ParentUri
  /\ last.object = NoObject

(***************************************************************************)
(* The dynamic mockup server.                                              *)
(***************************************************************************)
\* The handler registered for a method and URI, 0 when there is none.
Registered(method, uri) == server.handlers[<<method, uri>>]

\* C33: the life of a handler.  Once a handler is registered for a method
\* and a URI, requests of that method to that URI invoke it; after
\* ClearHandlers a request invokes no handler registered before it,
\* succeeds all the same and is served by the mockup: a GET of /redfish/v1
\* gets the mockup's service root.
C33_HandlerLifecycle ==
  /\ last.op = "Request" =>
       /\ last.reply.ok
       /\ last.reply.called = 0 \/ last.reply.called > server.cleared
       /\ last.reply.called = Registered(last.method, last.uri)
       /\ (last.reply.called = 0 /\ last.method = "GET"
             /\ last.uri = RootUri) => last.reply.body = "Root Service"
  /\ last.op = "AddHandler" =>
       Registered(last.method, last.uri) = server.registered
  /\ last.op = "ClearHandlers" =>
       \A slot \in Slots : server.handlers[slot] = 0
  /\ \A slot \in Slots :
       server.handlers[slot] = 0 \/ server.handlers[slot] > server.cleared

\* Handlers were registered and cleared, and a POST that had a handler is
\* now answered by the mockup.
C33_Witness ==
  /\ last.op = "Request"
  /\ last.method = "POST"
  /\ last.reply.called = 0
  /\ server.cleared >= 2
  /\ server.registered > server.cleared

(***************************************************************************)
(* The transport that is none.                                             *)
(***************************************************************************)
\* C34: NullTransport fails every REST operation.  Get, Post, Patch and
\* Delete return an Internal error for every path and payload, and never
\* a Result.
C34_NullTransportFails ==
  last.op \in {"Get", "Post", "Patch", "Delete"} =>
    /\ ~last.ret.ok
    /\ last.ret.code = "INTERNAL"
    /\ ~last.ret.has_result

\* A Delete with a payload on a path of several characters was refused.
C34_Witness ==
  /\ last.op = "Delete"
  /\ Len(last.path) > 1
  /\ last.data # <<>>
  /\ ~last.ret.ok

(***************************************************************************)
(* The planner's handles, once more.                                       *)
(***************************************************************************)
\* C35: every handle of the planner's active set has a compiled step or
\* more.  A subquery whose redpath is empty or made of '/' only is marked
\* invalid or kept out of the set some other way, so that neither the
\* constructor nor a Run reads a step through the cursor of a handle that
\* has none: no operation ends in a crash, and every cursor FilterNodeSet
\* and RunRecursive read through is on a step.
C35_EveryActiveHandleHasAStep ==
  /\ ~HasStepless(planner)
  /\ pc # "crashed"
  /\ \A f \in Events("Filter") : OnAStep(trace[f].hs[1])
  /\ \A r \in Events("RunRecursive") :
       \A k \in 1..Len(trace[r].hs) : OnAStep(trace[r].hs[k])

\* C36: the handles move in step with the depth.  In every call of
\* RunRecursive during a Run all handles passed in have the same cursor,
\* which is the depth of the call: 0 for the call Run makes, one more for
\* each call nested in it.
C36_LockStepDepth ==
  \A r \in Events("RunRecursive") :
    /\ trace[r].view = Root.path => trace[r].d = 0
    /\ \A k \in 1..Len(trace[r].hs) : trace[r].hs[k][2] = trace[r].d
    /\ \A j, k \in 1..Len(trace[r].hs) : trace[r].hs[j][2] = trace[r].hs[k][2]

\* A call of RunRecursive two levels down that was handed two handles.
C36_Witness ==
  \E r \in Events("RunRecursive") :
    /\ trace[r].d = 2
    /\ Len(trace[r].hs) = 2
    /\ trace[r].hs[1][1] # trace[r].hs[2][1]

\* The calls op made on view v for the handle of the ix-th subquery.
CallsFor(op, v, ix) ==
  {e \in Events(op) : trace[e].view = v /\ trace[e].hs[1][1] = ix}

\* C37: Normalize is called exactly once for each handle and view whose
\* FilterNodeSet outcome is kEndOfRedpath, right after it, and never for a
\* handle whose outcome is kContinue or kEndByPredicate; so the records a
\* Run appends are never more than the calls of Normalize.
C37_NormalizeOncePerTerminal ==
  /\ \A f \in Events("Filter") :
       LET v  == trace[f].view
           ix == trace[f].hs[1][1]
       IN  /\ Cardinality(CallsFor("Filter", v, ix)) = 1
           /\ trace[f].ret = "kEndOfRedpath" =>
                /\ Cardinality(CallsFor("Normalize", v, ix)) = 1
                /\ f < Len(trace) /\ trace[f + 1].op = "Normalize"
                /\ trace[f + 1].view = v /\ trace[f + 1].hs[1][1] = ix
           /\ trace[f].ret # "kEndOfRedpath" =>
                CallsFor("Normalize", v, ix) = {}
  /\ \A n \in Events("Normalize") :
       CallsFor("Filter", trace[n].view, trace[n].hs[1][1]) # {}
  /\ pc = "done" =>
       Len(Bucket(result, "S1")) + Len(Bucket(result, "S2"))
         <= Cardinality(Events("Normalize"))

\* A Run in which one handle went on from a view and another ended on it,
\* and in which a call of Normalize gave no record.
C37_Witness ==
  /\ pc = "done"
  /\ \E f, g \in Events("Filter") :
       /\ trace[f].view = trace[g].view
       /\ trace[f].ret = "kContinue"
       /\ trace[g].ret = "kEndOfRedpath"
  /\ Len(Bucket(result, "S1")) + Len(Bucket(result, "S2"))
       < Cardinality(Events("Normalize"))

=============================================================================
